---- MODULE Spec2Model ----
(***************************************************************************)
(* Model of the response-recovery parser of the scientific Q&A service:    *)
(* SimplifiedScientificQA._parse_response and _extract_fields_with_regex   *)
(* (src/src/simplified_program.py).                                        *)
(*                                                                         *)
(* Text is a sequence of lexemes.  Single characters that the parser's     *)
(* searches and patterns distinguish are lexemes of their own (braces,     *)
(* brackets, comma, colon, double quote, backslash, newline, blank, minus);*)
(* the triple backtick, the double slash, the field names, the JSON        *)
(* literals, numerals and words of prose are atomic lexemes.               *)
(***************************************************************************)
EXTENDS Integers, Sequences, FiniteSets, TLC

(***************************************************************************)
(* Lexemes                                                                 *)
(***************************************************************************)
Q == "\""
BS == "\\"
NL == "\n"
SP == " "
\* the triple backtick that opens and closes a fenced block
FENCE == "<fence>"
SLASHES == "//"
TRUNC == "~"

Ws == {SP, NL}

\* lexemes that are one character long: a slice that drops the last
\* character of the text drops such a lexeme whole
OneChar == {"{", "}", "[", "]", ",", ":", Q, BS, NL, SP, "-", "n",
            "B", "R", "A", "X", "T", "S", "5", "3", "1", "0"}

\* numerals that json.loads reads as int, with their value in tenths
IntTokens == {"5", "3", "1", "0"}
\* numerals that json.loads reads as float, with their value in tenths
FloatTokens == {"0.0", "0.5", "0.8", "0.9", "1.0", "1.5"}
\* a run of digits and dots that is no numeral
BadNumTokens == {"1.2.3"}
\* every lexeme matched by the pattern [\d\.]+
DigitTokens == IntTokens \cup FloatTokens \cup BadNumTokens

TenthsOf(tok) ==
    CASE tok = "5" -> 50
      [] tok = "3" -> 30
      [] tok = "1" -> 10
      [] tok = "0" -> 0
      [] tok = "0.0" -> 0
      [] tok = "0.5" -> 5
      [] tok = "0.8" -> 8
      [] tok = "0.9" -> 9
      [] tok = "1.0" -> 10
      [] tok = "1.5" -> 15
      [] OTHER -> 0

(***************************************************************************)
(* Python values: str, int, float (value in tenths), nan, bool, None,      *)
(* list and dict.  A dict is the sequence of its members in insertion      *)
(* order; every value has the same record shape.                           *)
(***************************************************************************)
Val(t, s, n, items) == [t |-> t, s |-> s, n |-> n, items |-> items]
Str(s) == Val("str", s, 0, <<>>)
Int_(n) == Val("int", <<>>, n, <<>>)
Float(n) == Val("float", <<>>, n, <<>>)
NaN == Val("nan", <<>>, 0, <<>>)
None == Val("none", <<>>, 0, <<>>)
Bool(b) == Val("bool", <<>>, IF b THEN 10 ELSE 0, <<>>)
List(items) == Val("list", <<>>, 0, items)
Member(k, v) == Val("member", k, 0, <<v>>)
Dict(members) == Val("dict", <<>>, 0, members)
EmptyDict == Dict(<<>>)

IsDict(v) == v.t = "dict"

KeyIndex(members, k) ==
    IF \E i \in 1..Len(members) : members[i].s = k
    THEN CHOOSE i \in 1..Len(members) : members[i].s = k
    ELSE 0

\* d[k] = v : an existing key keeps its position, a new key is appended
DictSet(d, k, v) ==
    LET i == KeyIndex(d.items, k)
    IN  IF i = 0 THEN Dict(Append(d.items, Member(k, v)))
        ELSE Dict([d.items EXCEPT ![i] = Member(k, v)])

HasKey(d, k) == KeyIndex(d.items, k) # 0

\* d.get(k): None when the key is absent
DictGet(d, k) ==
    LET i == KeyIndex(d.items, k)
    IN  IF i = 0 THEN None ELSE d.items[i].items[1]

\* d.setdefault(k, v)
SetDefault(d, k, v) == IF HasKey(d, k) THEN d ELSE DictSet(d, k, v)

(***************************************************************************)
(* String primitives                                                       *)
(***************************************************************************)
At(toks, i) == IF i >= 1 /\ i <= Len(toks) THEN toks[i] ELSE "EOF"

\* toks[a..b] (1-based, inclusive); empty when b < a
Slice(toks, a, b) ==
    IF b < a THEN <<>> ELSE [i \in 1..(b - a + 1) |-> toks[a + i - 1]]

\* first index >= from that holds tok, 0 when there is none (str.find)
FindTok(toks, tok, from) ==
    IF \E i \in from..Len(toks) : toks[i] = tok
    THEN CHOOSE i \in from..Len(toks) :
            toks[i] = tok /\ \A j \in from..(i - 1) : toks[j] # tok
    ELSE 0

\* first index of tok1 directly followed by tok2, 0 when there is none
FindPair(toks, tok1, tok2) ==
    IF \E i \in 1..(Len(toks) - 1) : toks[i] = tok1 /\ toks[i + 1] = tok2
    THEN CHOOSE i \in 1..(Len(toks) - 1) :
            /\ toks[i] = tok1 /\ toks[i + 1] = tok2
            /\ \A j \in 1..(i - 1) : ~(toks[j] = tok1 /\ toks[j + 1] = tok2)
    ELSE 0

RECURSIVE SkipWs(_, _)
SkipWs(toks, i) ==
    IF i <= Len(toks) /\ toks[i] \in Ws THEN SkipWs(toks, i + 1) ELSE i

RECURSIVE SkipWsBack(_, _)
SkipWsBack(toks, i) ==
    IF i >= 1 /\ toks[i] \in Ws THEN SkipWsBack(toks, i - 1) ELSE i

\* str.strip()
Strip(toks) == Slice(toks, SkipWs(toks, 1), SkipWsBack(toks, Len(toks)))

\* s[:-1] : the text without its last character
DropLastChar(toks) ==
    IF Len(toks) = 0 THEN <<>>
    ELSE IF toks[Len(toks)] \in OneChar THEN Slice(toks, 1, Len(toks) - 1)
    ELSE Append(Slice(toks, 1, Len(toks) - 1), TRUNC)

(***************************************************************************)
(* json.loads                                                              *)
(***************************************************************************)
Fail == [ok |-> FALSE, val |-> None, next |-> 0]
Ok(v, next) == [ok |-> TRUE, val |-> v, next |-> next]

\* index of the last lexeme before j that is no backslash (at least lo - 1)
LastNonBackslash(toks, lo, j) ==
    IF \E i \in lo..(j - 1) : toks[i] # BS
    THEN CHOOSE i \in lo..(j - 1) :
            toks[i] # BS /\ \A k \in (i + 1)..(j - 1) : toks[k] = BS
    ELSE lo - 1

\* the lexeme at j, within a string body that starts at lo, is preceded by
\* an odd number of backslashes: it is the second half of an escape
Escaped(toks, lo, j) == (j - 1 - LastNonBackslash(toks, lo, j)) % 2 = 1

\* the decoded lexemes of the string body toks[a..b]
RECURSIVE Unescape(_, _, _, _)
Unescape(toks, lo, a, b) ==
    IF a > b THEN <<>>
    ELSE IF a = b
    THEN IF Escaped(toks, lo, a)
         THEN (IF toks[a] = "n" THEN <<NL>> ELSE <<toks[a]>>)
         ELSE IF toks[a] = BS THEN <<>> ELSE <<toks[a]>>
    ELSE LET mid == (a + b) \div 2
         IN  Unescape(toks, lo, a, mid) \o Unescape(toks, lo, mid + 1, b)

\* the string whose body starts at index lo, up to the closing quote: the
\* first quote that is not escaped; a raw newline or a backslash before
\* anything but a quote, a backslash or n is an error
ScanString(toks, lo) ==
    IF \E j \in lo..Len(toks) : toks[j] = Q /\ ~Escaped(toks, lo, j)
    THEN LET close == CHOOSE j \in lo..Len(toks) :
                        /\ toks[j] = Q /\ ~Escaped(toks, lo, j)
                        /\ \A k \in lo..(j - 1) : ~(toks[k] = Q /\ ~Escaped(toks, lo, k))
         IN  IF \E k \in lo..(close - 1) :
                    \/ toks[k] = NL
                    \/ Escaped(toks, lo, k) /\ toks[k] \notin {Q, BS, "n"}
             THEN Fail
             ELSE Ok(Str(Unescape(toks, lo, lo, close - 1)), close + 1)
    ELSE Fail

RECURSIVE ParseValue(_, _)
RECURSIVE ParsePairs(_, _, _)
RECURSIVE ParseElems(_, _, _)

ParseValue(toks, i) ==
    LET tok == At(toks, i)
    IN  IF tok = Q THEN ScanString(toks, i + 1)
        ELSE IF tok = "{" THEN
            LET j == SkipWs(toks, i + 1)
            IN  IF At(toks, j) = "}" THEN Ok(EmptyDict, j + 1)
                ELSE ParsePairs(toks, j, EmptyDict)
        ELSE IF tok = "[" THEN
            LET j == SkipWs(toks, i + 1)
            IN  IF At(toks, j) = "]" THEN Ok(List(<<>>), j + 1)
                ELSE ParseElems(toks, j, <<>>)
        ELSE IF tok = "null" THEN Ok(None, i + 1)
        ELSE IF tok = "true" THEN Ok(Bool(TRUE), i + 1)
        ELSE IF tok = "false" THEN Ok(Bool(FALSE), i + 1)
        ELSE IF tok = "NaN" THEN Ok(NaN, i + 1)
        ELSE IF tok \in IntTokens THEN Ok(Int_(TenthsOf(tok)), i + 1)
        ELSE IF tok \in FloatTokens THEN Ok(Float(TenthsOf(tok)), i + 1)
        ELSE IF tok = "-" THEN
            LET num == At(toks, i + 1)
            IN  IF num \in IntTokens THEN Ok(Int_(0 - TenthsOf(num)), i + 2)
                ELSE IF num \in FloatTokens THEN Ok(Float(0 - TenthsOf(num)), i + 2)
                ELSE Fail
        ELSE Fail

ParsePairs(toks, j, acc) ==
    IF At(toks, j) # Q THEN Fail
    ELSE
        LET key == ScanString(toks, j + 1)
        IN  IF ~key.ok THEN Fail
            ELSE
                LET c == SkipWs(toks, key.next)
                IN  IF At(toks, c) # ":" THEN Fail
                    ELSE
                        LET v == ParseValue(toks, SkipWs(toks, c + 1))
                        IN  IF ~v.ok THEN Fail
                            ELSE
                                LET m == SkipWs(toks, v.next)
                                    acc2 == DictSet(acc, key.val.s, v.val)
                                IN  IF At(toks, m) = "}" THEN Ok(acc2, m + 1)
                                    ELSE IF At(toks, m) = ","
                                    THEN ParsePairs(toks, SkipWs(toks, m + 1), acc2)
                                    ELSE Fail

ParseElems(toks, j, acc) ==
    LET v == ParseValue(toks, j)
    IN  IF ~v.ok THEN Fail
        ELSE
            LET m == SkipWs(toks, v.next)
                acc2 == Append(acc, v.val)
            IN  IF At(toks, m) = "]" THEN Ok(List(acc2), m + 1)
                ELSE IF At(toks, m) = ","
                THEN ParseElems(toks, SkipWs(toks, m + 1), acc2)
                ELSE Fail

\* json.loads(text): ok is FALSE where the library raises JSONDecodeError
JsonLoads(toks) ==
    LET v == ParseValue(toks, SkipWs(toks, 1))
    IN  IF v.ok /\ SkipWs(toks, v.next) = Len(toks) + 1 THEN v ELSE Fail

(***************************************************************************)
(* json.dumps (default separators, keys in insertion order)                *)
(***************************************************************************)
IntTok(n) == CHOOSE tok \in IntTokens : TenthsOf(tok) = n
FloatTok(n) == CHOOSE tok \in FloatTokens : TenthsOf(tok) = n

RECURSIVE EscapeRange(_, _, _)
EscapeRange(s, a, b) ==
    IF a > b THEN <<>>
    ELSE IF a = b
    THEN IF s[a] = Q THEN <<BS, Q>>
         ELSE IF s[a] = BS THEN <<BS, BS>>
         ELSE IF s[a] = NL THEN <<BS, "n">>
         ELSE <<s[a]>>
    ELSE LET mid == (a + b) \div 2
         IN  EscapeRange(s, a, mid) \o EscapeRange(s, mid + 1, b)

\* the body of a JSON string: quote, backslash and newline are escaped
EscapeString(s) == EscapeRange(s, 1, Len(s))

RECURSIVE JsonDumps(_)
RECURSIVE DumpItems(_, _)
JsonDumps(v) ==
    CASE v.t = "str" -> <<Q>> \o EscapeString(v.s) \o <<Q>>
      [] v.t = "int" -> IF v.n < 0 THEN <<"-", IntTok(0 - v.n)>> ELSE <<IntTok(v.n)>>
      [] v.t = "float" -> IF v.n < 0 THEN <<"-", FloatTok(0 - v.n)>> ELSE <<FloatTok(v.n)>>
      [] v.t = "nan" -> <<"NaN">>
      [] v.t = "none" -> <<"null">>
      [] v.t = "bool" -> IF v.n = 10 THEN <<"true">> ELSE <<"false">>
      [] v.t = "list" -> <<"[">> \o DumpItems(v.items, 1) \o <<"]">>
      [] v.t = "dict" -> <<"{">> \o DumpItems(v.items, 1) \o <<"}">>
      [] v.t = "member" ->
            <<Q>> \o EscapeString(v.s) \o <<Q, ":", SP>> \o JsonDumps(v.items[1])

DumpItems(items, i) ==
    IF i > Len(items) THEN <<>>
    ELSE JsonDumps(items[i])
         \o (IF i < Len(items) THEN <<",", SP>> ELSE <<>>)
         \o DumpItems(items, i + 1)

(***************************************************************************)
(* Step 1: the candidate text (fence extraction)                           *)
(***************************************************************************)
\* content[json_start:json_end].strip(), json_end = content.find(fence, json_start);
\* find gives -1 when there is no closing fence and the slice then ends
\* before the last character
\* FencedBlock taking the whole rest where no closing fence follows
FencedBlockToEnd(c, json_start) ==
    LET json_end == FindTok(c, FENCE, json_start)
    IN  Strip(IF json_end = 0
              THEN Slice(c, json_start, Len(c))
              ELSE Slice(c, json_start, json_end - 1))

FencedBlock(c, json_start) ==
    LET json_end == FindTok(c, FENCE, json_start)
    IN  Strip(IF json_end = 0
              THEN DropLastChar(Slice(c, json_start, Len(c)))
              ELSE Slice(c, json_start, json_end - 1))

LastIndexOf(toks, tok) ==
    IF \E i \in 1..Len(toks) : toks[i] = tok
    THEN CHOOSE i \in 1..Len(toks) :
            toks[i] = tok /\ \A j \in (i + 1)..Len(toks) : toks[j] # tok
    ELSE 0

\* re.search(r'(\{.*\})', content, re.DOTALL): first { to last }
BraceSpan(c) ==
    LET a == FindTok(c, "{", 1)
        b == LastIndexOf(c, "}")
    IN  IF a # 0 /\ b > a THEN [found |-> TRUE, span |-> Slice(c, a, b)]
        ELSE [found |-> FALSE, span |-> <<>>]

ExtractBranch(c) ==
    IF FindPair(c, FENCE, "json") # 0 THEN "fence_json"
    ELSE IF FindTok(c, FENCE, 1) # 0 THEN "fence"
    ELSE IF BraceSpan(c).found THEN "braces"
    ELSE "whole"

\* ExtractCandidate with the plain fence tested before the tagged one
ExtractCandidateUntaggedFirst(c) ==
    IF FindTok(c, FENCE, 1) # 0
    THEN FencedBlock(c, FindTok(c, FENCE, 1) + 1)
    ELSE IF FindPair(c, FENCE, "json") # 0
    THEN FencedBlock(c, FindPair(c, FENCE, "json") + 2)
    ELSE IF BraceSpan(c).found THEN BraceSpan(c).span
    ELSE c

ExtractCandidate(c) ==
    IF FindPair(c, FENCE, "json") # 0
    THEN FencedBlock(c, FindPair(c, FENCE, "json") + 2)
    ELSE IF FindTok(c, FENCE, 1) # 0
    THEN FencedBlock(c, FindTok(c, FENCE, 1) + 1)
    ELSE IF BraceSpan(c).found THEN BraceSpan(c).span
    ELSE c

(***************************************************************************)
(* Step 2: syntax repair                                                   *)
(***************************************************************************)
\* the lexemes of toks[a..b] whose index is not in drop, in order
RECURSIVE Keep(_, _, _, _)
Keep(toks, drop, a, b) ==
    IF a > b THEN <<>>
    ELSE IF a = b THEN (IF a \in drop THEN <<>> ELSE <<toks[a]>>)
    ELSE LET mid == (a + b) \div 2
         IN  Keep(toks, drop, a, mid) \o Keep(toks, drop, mid + 1, b)

\* index i lies in a match of //.* : a // at or before i with no newline
\* from it up to i
InComment(toks, i) ==
    \E j \in 1..i : toks[j] = SLASHES /\ \A k \in j..i : toks[k] # NL

\* re.sub(r'//.*', '', s): from every // to the end of its line
StripComments(toks) ==
    Keep(toks, {i \in 1..Len(toks) : InComment(toks, i)}, 1, Len(toks))

\* index i lies in the ,\s* part of a match of ,\s*closer
InTrailingComma(toks, i, closer) ==
    /\ At(toks, SkipWs(toks, i + 1)) = closer
    /\ \/ toks[i] = ","
       \/ toks[i] \in Ws /\ At(toks, SkipWsBack(toks, i)) = ","

\* re.sub(r',\s*]', ']', s) and re.sub(r',\s*}', '}', s)
FixTrailingComma(toks, closer) ==
    Keep(toks, {i \in 1..Len(toks) : InTrailingComma(toks, i, closer)}, 1, Len(toks))

Repair(json_str0) ==
    LET s1 == StripComments(json_str0)
        s2 == FixTrailingComma(s1, "]")
    IN  FixTrailingComma(s2, "}")

(***************************************************************************)
(* Step 4: regex field extraction                                          *)
(***************************************************************************)
\* index of the first lexeme after  "key"\s*:\s*  when that prefix matches
\* at i, else 0
KeyPrefixEnd(c, i, key) ==
    IF At(c, i) = Q /\ At(c, i + 1) = key /\ At(c, i + 2) = Q
    THEN LET j == SkipWs(c, i + 3)
         IN  IF At(c, j) = ":" THEN SkipWs(c, j + 1) ELSE 0
    ELSE 0

\* "key"\s*:\s*"([^"]*)" matches at i
TextMatchAt(c, i, key) ==
    LET k == KeyPrefixEnd(c, i, key)
    IN  k # 0 /\ At(c, k) = Q /\ FindTok(c, Q, k + 1) # 0

\* re.search(r'"key"\s*:\s*"([^"]*)"', content): the leftmost match
TextSearch(c, key) ==
    IF \E i \in 1..Len(c) : TextMatchAt(c, i, key)
    THEN LET i == CHOOSE i \in 1..Len(c) :
                    TextMatchAt(c, i, key)
                    /\ \A j \in 1..(i - 1) : ~TextMatchAt(c, j, key)
             k == KeyPrefixEnd(c, i, key)
         IN  [found |-> TRUE, group |-> Slice(c, k + 1, FindTok(c, Q, k + 1) - 1)]
    ELSE [found |-> FALSE, group |-> <<>>]

RECURSIVE DigitRunEnd(_, _)
DigitRunEnd(c, i) ==
    IF At(c, i + 1) \in DigitTokens THEN DigitRunEnd(c, i + 1) ELSE i

\* "confidence"\s*:\s*([\d\.]+) matches at i
NumMatchAt(c, i) ==
    LET k == KeyPrefixEnd(c, i, "confidence")
    IN  k # 0 /\ At(c, k) \in DigitTokens

NumSearch(c) ==
    IF \E i \in 1..Len(c) : NumMatchAt(c, i)
    THEN LET i == CHOOSE i \in 1..Len(c) :
                    NumMatchAt(c, i) /\ \A j \in 1..(i - 1) : ~NumMatchAt(c, j)
             k == KeyPrefixEnd(c, i, "confidence")
         IN  [found |-> TRUE, group |-> Slice(c, k, DigitRunEnd(c, k))]
    ELSE [found |-> FALSE, group |-> <<>>]

\* float(text): ok is FALSE where it raises ValueError
StrToFloat(s) ==
    LET t == Strip(s)
    IN  IF Len(t) = 1 /\ t[1] \in IntTokens \cup FloatTokens
        THEN [ok |-> TRUE, val |-> Float(TenthsOf(t[1]))]
        ELSE IF Len(t) = 2 /\ t[1] = "-" /\ t[2] \in IntTokens \cup FloatTokens
        THEN [ok |-> TRUE, val |-> Float(0 - TenthsOf(t[2]))]
        ELSE IF Len(t) = 1 /\ t[1] \in {"nan", "NaN"}
        THEN [ok |-> TRUE, val |-> NaN]
        ELSE [ok |-> FALSE, val |-> None]

\* a default confidence of 0.0
ZeroConfidence == Float(0)

\* the confidence 0.5 used when none is given or the text is no number
HalfConfidence == Float(5)

SetIfFound(d, key, m) == IF m.found THEN DictSet(d, <<key>>, Str(m.group)) ELSE d

\* the regex tier with a search that recovers the citation entries as well
ExtractFieldsWithCitations(c) ==
    LET r1 == SetIfFound(EmptyDict, "background", TextSearch(c, "background"))
        r2 == SetIfFound(r1, "reasoning", TextSearch(c, "reasoning"))
        r3 == SetIfFound(r2, "answer", TextSearch(c, "answer"))
        tm == TextSearch(c, "title")
        r5 == DictSet(r3, <<"citations">>,
                      IF tm.found
                      THEN List(<<Dict(<<Member(<<"title">>, Str(tm.group))>>)>>)
                      ELSE List(<<>>))
    IN  DictSet(r5, <<"further_reading">>, List(<<>>))

ExtractFieldsWithRegex(c) ==
    LET r1 == SetIfFound(EmptyDict, "background", TextSearch(c, "background"))
        r2 == SetIfFound(r1, "reasoning", TextSearch(c, "reasoning"))
        r3 == SetIfFound(r2, "answer", TextSearch(c, "answer"))
        cm == NumSearch(c)
        r4 == IF cm.found
              THEN DictSet(r3, <<"confidence">>,
                           IF StrToFloat(cm.group).ok THEN StrToFloat(cm.group).val
                           ELSE HalfConfidence)
              ELSE r3
        r5 == DictSet(r4, <<"citations">>, List(<<>>))
    IN  DictSet(r5, <<"further_reading">>, List(<<>>))

(***************************************************************************)
(* Steps 5 and 6: defaulting, coercion; the catch-all                      *)
(***************************************************************************)
NoBackground == Str(<<"No background information provided.">>)
NoReasoning == Str(<<"No reasoning provided.">>)
NoAnswer == Str(<<"No answer provided.">>)

\* the six result.setdefault calls
EnsureDefaults(result0) ==
    LET r1 == SetDefault(result0, <<"background">>, NoBackground)
        r2 == SetDefault(r1, <<"reasoning">>, NoReasoning)
        r3 == SetDefault(r2, <<"answer">>, NoAnswer)
        r4 == SetDefault(r3, <<"confidence">>, HalfConfidence)
        r5 == SetDefault(r4, <<"citations">>, List(<<>>))
    IN  SetDefault(r5, <<"further_reading">>, List(<<>>))

\* if isinstance(confidence, str): float(confidence), 0.5 on ValueError
ConfidenceFromText(result0) ==
    LET cf == DictGet(result0, <<"confidence">>)
    IN  IF cf.t = "str"
        THEN DictSet(result0, <<"confidence">>,
                     IF StrToFloat(cf.s).ok THEN StrToFloat(cf.s).val
                     ELSE HalfConfidence)
        ELSE result0

\* the types for which  value > 1.0  raises TypeError
Unorderable(v) == v.t \in {"none", "list", "dict", "str"}

\* value > 1.0 and value < 0.0 ; both are False for nan
GreaterThanOne(v) == v.t \in {"int", "float", "bool"} /\ v.n > 10
LessThanZero(v) == v.t \in {"int", "float", "bool"} /\ v.n < 0

\* the cap of the confidence value
CapConfidence(result0) ==
    LET cf == DictGet(result0, <<"confidence">>)
    IN  IF GreaterThanOne(cf) THEN DictSet(result0, <<"confidence">>, Float(10))
        ELSE IF LessThanZero(cf) THEN DictSet(result0, <<"confidence">>, Float(0))
        ELSE result0

\* EnsureList without the isinstance test
EnsureListSkipped(result0, key) == result0

\* if not isinstance(result.get(key), list): result[key] = []
EnsureList(result0, key) ==
    IF DictGet(result0, key).t # "list" THEN DictSet(result0, key, List(<<>>))
    ELSE result0

PyType(v) ==
    CASE v.t = "str" -> "str"
      [] v.t = "int" -> "int"
      [] v.t \in {"float", "nan"} -> "float"
      [] v.t = "none" -> "NoneType"
      [] v.t = "bool" -> "bool"
      [] v.t = "list" -> "list"
      [] OTHER -> "dict"

NoException == [kind |-> "none", msg |-> ""]
AttributeError(v) ==
    [kind |-> "AttributeError",
     msg |-> "'" \o PyType(v) \o "' object has no attribute 'setdefault'"]
TypeError(v) ==
    [kind |-> "TypeError",
     msg |-> "'>' not supported between instances of '" \o PyType(v) \o "' and 'float'"]
JSONDecodeError == [kind |-> "JSONDecodeError", msg |-> "Expecting value"]

\* json.loads without the inner try
InnerCatchesNothing(e) == FALSE

\* except json.JSONDecodeError around json.loads
InnerCatches(e) == e.kind = "JSONDecodeError"

\* a catch-all that names only the decoding errors
OuterCatchesDecodeErrors(e) == e.kind \in {"JSONDecodeError", "ValueError"}

\* except Exception around the whole body
OuterCatches(e) == e.kind \in {"JSONDecodeError", "AttributeError", "TypeError", "ValueError"}

\* the record returned by the catch-all
ErrorRecord(c, e) ==
    Dict(<< Member(<<"background">>, Str(<<"Error parsing the response.">>)),
            Member(<<"reasoning">>,
                   Str(<<"An error occurred during processing: ", e.msg>>)),
            Member(<<"answer">>, Str(c)),
            Member(<<"confidence">>, Float(0)),
            Member(<<"citations">>, List(<<>>)),
            Member(<<"further_reading">>, List(<<>>)) >>)

(***************************************************************************)
(* The completions fed to the parser.  A completion is an object in the    *)
(* format the system prompt asks for, each field taking one of a few       *)
(* forms, written with or without defects and wrapped in prose or fences;  *)
(* or one of a few texts that are no object.                               *)
(***************************************************************************)
\* fields of a written object that may differ from the well-formed base
MaxDeviations == 1
\* entries of a citations list
MaxCitations == 1
\* times a returned record is serialised and parsed again
MaxRounds == 1

Opt(form, text, val, valid) ==
    [form |-> form, text |-> text, val |-> val, valid |-> valid]
Absent == Opt("absent", <<>>, None, FALSE)
Quoted(s) == <<Q>> \o s \o <<Q>>
TextOpt(form, s) == Opt(form, Quoted(s), Str(s), TRUE)

UrlText == <<"https:", SLASHES, "X">>
CitationText == <<"{", Q, "title", Q, ":">> \o Quoted(<<"T">>)
                \o <<",", Q, "url", Q, ":">> \o Quoted(UrlText) \o <<"}">>
CitationVal == Dict(<<Member(<<"title">>, Str(<<"T">>)),
                      Member(<<"url">>, Str(UrlText))>>)
TitleOnlyText == <<"{", Q, "title", Q, ":">> \o Quoted(<<"T">>) \o <<"}">>
TitleOnlyVal == Dict(<<Member(<<"title">>, Str(<<"T">>))>>)
UntitledText == <<"{", Q, "url", Q, ":">> \o Quoted(<<"X">>) \o <<"}">>
UntitledVal == Dict(<<Member(<<"url">>, Str(<<"X">>))>>)

RECURSIVE Repeat(_, _, _)
Repeat(text, sep, k) ==
    IF k = 0 THEN <<>>
    ELSE IF k = 1 THEN text
    ELSE text \o sep \o Repeat(text, sep, k - 1)

CitationsOpt(k) ==
    Opt("urls", <<"[">> \o Repeat(CitationText, <<",">>, k) \o <<"]">>,
        List([i \in 1..k |-> CitationVal]), TRUE)

BgBase == TextOpt("text", <<"B">>)
RsBase == TextOpt("text", <<"R">>)
AnBase == TextOpt("text", <<"A">>)
CfBase == Opt("num", <<"0.9">>, Float(9), TRUE)
CiBase == Opt("empty", <<"[", "]">>, List(<<>>), TRUE)
FrBase == Opt("list", <<"[">> \o Quoted(<<"X">>) \o <<"]">>, List(<<Str(<<"X">>)>>), TRUE)

BgOpts == {BgBase, Absent, TextOpt("url", <<"see", SP, "http:", SLASHES, "X">>)}
RsOpts == {RsBase, Absent}
AnOpts == {AnBase, Absent,
           Opt("emptytext", <<Q, Q>>, Str(<<>>), TRUE),
           Opt("null", <<"null">>, None, FALSE),
           TextOpt("closer", <<"A", ",", "}">>)}
CfOpts == {CfBase, Absent,
           Opt("num", <<"5">>, Int_(50), FALSE),
           Opt("num", <<"1.5">>, Float(15), FALSE),
           Opt("num", <<"-", "3">>, Int_(0 - 30), FALSE),
           Opt("num", <<"1">>, Int_(10), TRUE),
           Opt("word", Quoted(<<"abc">>), Str(<<"abc">>), FALSE),
           Opt("numtext", Quoted(<<"0.8">>), Str(<<"0.8">>), FALSE),
           Opt("nantext", Quoted(<<"nan">>), Str(<<"nan">>), FALSE),
           Opt("nan", <<"NaN">>, NaN, FALSE),
           Opt("bool", <<"true">>, Bool(TRUE), FALSE),
           Opt("null", <<"null">>, None, FALSE),
           Opt("list", <<"[", "]">>, List(<<>>), FALSE),
           Opt("dict", <<"{", "}">>, EmptyDict, FALSE),
           Opt("dotted", <<"1.2.3">>, None, FALSE)}
CiOpts == {CiBase, Absent,
           Opt("word", Quoted(<<"not a list">>), Str(<<"not a list">>), FALSE),
           Opt("titled", <<"[">> \o TitleOnlyText \o <<"]">>, List(<<TitleOnlyVal>>), TRUE),
           Opt("untitled", <<"[">> \o UntitledText \o <<"]">>, List(<<UntitledVal>>), FALSE)}
          \cup {CitationsOpt(k) : k \in 1..MaxCitations}
FrOpts == {FrBase, Absent,
           Opt("empty", <<"[", "]">>, List(<<>>), TRUE),
           Opt("word", Quoted(<<"X">>), Str(<<"X">>), FALSE),
           Opt("comma", <<"[">> \o Quoted(<<"X">>) \o <<",", "]">>, List(<<Str(<<"X">>)>>), FALSE)}

FieldNames == <<"background", "reasoning", "answer", "confidence",
                "citations", "further_reading">>
BaseObject == <<BgBase, RsBase, AnBase, CfBase, CiBase, FrBase>>

Deviations(o) == Cardinality({i \in 1..6 : o[i] # BaseObject[i]})

ObjectSpecs ==
    {o \in {<<bg, rs, an, cf, ci, fr>> :
                bg \in BgOpts, rs \in RsOpts, an \in AnOpts,
                cf \in CfOpts, ci \in CiOpts, fr \in FrOpts} :
        Deviations(o) <= MaxDeviations}

Defects == {"none", "commas", "comment", "nocommas", "unclosed"}
Wraps == {"bare", "jsonfence", "fence", "prose", "openfence", "openplain",
          "prosefence"}

\* the members of the object, each followed by sep (the last by last)
RECURSIVE RenderMembers(_, _, _, _, _)
RenderMembers(o, i, sep, first, last) ==
    IF i > 6 THEN <<>>
    ELSE IF o[i].form = "absent" THEN RenderMembers(o, i + 1, sep, first, last)
    ELSE LET rest == RenderMembers(o, i + 1, sep, sep, last)
         IN  <<Q, FieldNames[i], Q, ":">> \o o[i].text
             \o (IF rest = <<>> THEN last ELSE first) \o rest

RenderObject(o, defect) ==
    CASE defect = "none" -> <<"{">> \o RenderMembers(o, 1, <<",">>, <<",">>, <<>>) \o <<"}">>
      [] defect = "commas" ->
            <<"{">> \o RenderMembers(o, 1, <<",">>, <<",">>, <<",">>) \o <<"}">>
      [] defect = "comment" ->
            <<"{">> \o RenderMembers(o, 1, <<",">>,
                                     <<",", SP, SLASHES, SP, "note", NL>>,
                                     <<",", SP, SLASHES, SP, "note", NL>>) \o <<"}">>
      [] defect = "nocommas" -> <<"{">> \o RenderMembers(o, 1, <<SP>>, <<SP>>, <<>>) \o <<"}">>
      [] defect = "unclosed" -> <<"{">> \o RenderMembers(o, 1, <<",">>, <<",">>, <<>>)

Wrap(text, wrap) ==
    CASE wrap = "bare" -> text
      [] wrap = "jsonfence" -> <<FENCE, "json", NL>> \o text \o <<NL, FENCE>>
      [] wrap = "fence" -> <<FENCE, NL>> \o text \o <<NL, FENCE>>
      [] wrap = "prose" -> <<"Sure", SP>> \o text \o <<SP, "Hope">>
      [] wrap = "openfence" -> <<FENCE, "json", NL>> \o text
      [] wrap = "openplain" -> <<FENCE, NL>> \o text
      [] wrap = "prosefence" ->
            <<"Sure", NL, FENCE, "json", NL>> \o text \o <<NL, FENCE, NL, "Hope">>

Render(doc) ==
    IF doc.kind = "object" THEN Wrap(RenderObject(doc.o, doc.defect), doc.wrap)
    ELSE doc.text

ObjectDoc(o, defect, wrap) ==
    [kind |-> "object", o |-> o, defect |-> defect, wrap |-> wrap, text |-> <<>>]
OtherDoc(kind, text) ==
    [kind |-> kind, o |-> BaseObject, defect |-> "none", wrap |-> "bare", text |-> text]

\* texts that are no object: prose, nothing, JSON values that are no object
OtherDocs ==
    {OtherDoc("prose", <<"I", SP, "know">>),
     OtherDoc("prose", <<"Sure">>),
     OtherDoc("prose", <<"see", SP, "http:", SLASHES, "X", NL, "Hope">>),
     OtherDoc("empty", <<>>),
     OtherDoc("scalar", <<"5">>),
     OtherDoc("scalar", <<"-", "3">>),
     OtherDoc("scalar", <<"null">>),
     OtherDoc("scalar", <<"true">>),
     OtherDoc("scalar", <<"NaN">>),
     OtherDoc("scalar", <<SP, "0.9", NL>>),
     OtherDoc("jsontext", Quoted(<<"A">>)),
     OtherDoc("jsonlist", <<"[", "1", ",", "]">>),
     OtherDoc("jsonlist", <<"[", "]">>),
     OtherDoc("fenced", <<FENCE, "5", FENCE>>),
     OtherDoc("fenced", <<FENCE, "json", NL, "[", "]", NL, FENCE>>),
     OtherDoc("fenced", <<FENCE, NL>>),
     OtherDoc("fenced", <<FENCE, "json">>),
     OtherDoc("fenced", <<"Sure", FENCE, "I", FENCE, "json", "{", "}", FENCE>>)}

Docs ==
    {ObjectDoc(o, d, w) : o \in ObjectSpecs, d \in Defects, w \in Wraps}
    \cup OtherDocs

(***************************************************************************)
(* The parser as a state machine: one invocation of _parse_response runs   *)
(* extract, repair, loads, (regex,) defaults, coerce, return / except.     *)
(***************************************************************************)
VARIABLES
    doc,        \* how the first completion was written
    content,    \* response.get('content', '')
    pc,         \* the statement the invocation is at
    json_str,   \* the candidate text
    result,     \* the parsed mapping
    exc,        \* the exception in flight
    rec,        \* the value returned to the caller
    events,     \* the branches this invocation has taken
    round,      \* how many times a record was fed back
    prev,       \* the record returned by the previous invocation
    \* the HTTP service (api/app.py, api/app_direct.py)
    MAX_CONCURRENT_REQUESTS,    \* the configured batch limit
    request_cache,              \* cache key -> cached response
    request,                    \* the HTTP request being served
    tasks,                      \* the process_query calls of the request
    completed,                  \* the tasks in the order they finished
    reply,                      \* the HTTP reply to the request
    served,                     \* how many HTTP requests were received
    work,                       \* model calls, cache reads and writes of the request
    \* concurrent invocations of _parse_response
    invocations,                \* per invocation: its content, position and return value
    frames,                     \* per frame: the locals json_str, result, exc
    \* ScientificQAProgram.build (src/programs.py)
    use_citation_lookup,        \* self.use_citation_lookup
    inputs,                     \* the argument of build
    build_pc,                   \* the statement build is at
    lookup_call,                \* the call of lookup_citations the action made
    action_output,              \* the local action_output
    outputs,                    \* the local outputs
    trace,                      \* the components invoked, with their arguments
    \* train_program (src/training.py)
    data_file,                  \* the 'train' list of the dataset file, None if unreadable
    train_pc,                   \* the statement train_program is at
    pairs,                      \* zip(x_train, y_train)
    loop_i,                     \* i of the enumerate loop
    formatted_examples,         \* the local formatted_examples
    program_examples,           \* program.examples
    saved_file                  \* the text written to output_path

parserVars == <<doc, content, pc, json_str, result, exc, rec, events, round, prev>>
apiVars == <<MAX_CONCURRENT_REQUESTS, request_cache, request, tasks, completed,
             reply, served, work>>
threadVars == <<invocations, frames>>
buildVars == <<use_citation_lookup, inputs, build_pc, lookup_call, action_output,
               outputs, trace>>
trainVars == <<data_file, train_pc, pairs, loop_i, formatted_examples,
               program_examples, saved_file>>
vars == <<parserVars, apiVars, threadVars, buildVars, trainVars>>

\* values of the variables of a part that is not running
NoRequest == [endpoint |-> "none", queries |-> <<>>]
NoReply == [status_code |-> 0, body |-> None]
NoWork == [model_calls |-> 0, cache_reads |-> 0, cache_writes |-> 0]
NoLookup == [topic |-> <<>>, max_results |-> 0, returned |-> None]

NoParser ==
    /\ doc = [kind |-> "none", o |-> <<>>, defect |-> "none", wrap |-> "bare", text |-> <<>>]
    /\ content = <<>>
    /\ pc = "off"
    /\ json_str = <<>>
    /\ result = None
    /\ exc = [kind |-> "none", msg |-> ""]
    /\ rec = None
    /\ events = {}
    /\ round = 0
    /\ prev = None

NoService ==
    /\ MAX_CONCURRENT_REQUESTS = 0
    /\ request_cache = <<>>
    /\ request = NoRequest
    /\ tasks = <<>>
    /\ completed = <<>>
    /\ reply = NoReply
    /\ served = 0
    /\ work = NoWork

NoThreads ==
    /\ invocations = <<>>
    /\ frames = <<>>

NoTrain ==
    /\ data_file = None
    /\ train_pc = "off"
    /\ pairs = <<>>
    /\ loop_i = 0
    /\ formatted_examples = <<>>
    /\ program_examples = <<>>
    /\ saved_file = <<>>

NoBuild ==
    /\ use_citation_lookup = FALSE
    /\ inputs = None
    /\ build_pc = "off"
    /\ lookup_call = NoLookup
    /\ action_output = None
    /\ outputs = None
    /\ trace = <<>>

Init ==
    /\ doc \in Docs
    /\ content = Render(doc)
    /\ pc = "extract"
    /\ json_str = <<>>
    /\ result = None
    /\ exc = NoException
    /\ rec = None
    /\ events = {}
    /\ round = 0
    /\ prev = None
    /\ NoService /\ NoThreads /\ NoBuild /\ NoTrain

\* lines 212-227
Extract ==
    /\ pc = "extract"
    /\ json_str' = ExtractCandidate(content)
    /\ events' = events \cup {ExtractBranch(content)}
    /\ pc' = "repair"
    /\ UNCHANGED <<doc, content, result, exc, rec, round, prev>>
    /\ UNCHANGED <<apiVars, threadVars, buildVars, trainVars>>

\* lines 229-235
RepairStep ==
    /\ pc = "repair"
    /\ json_str' = Repair(json_str)
    /\ pc' = "loads"
    /\ UNCHANGED <<doc, content, result, exc, rec, events, round, prev>>
    /\ UNCHANGED <<apiVars, threadVars, buildVars, trainVars>>

\* line 239, json.loads returns
LoadsOk ==
    /\ pc = "loads"
    /\ JsonLoads(json_str).ok
    /\ result' = JsonLoads(json_str).val
    /\ events' = events \cup {"structured"}
    /\ pc' = "defaults"
    /\ UNCHANGED <<doc, content, json_str, exc, rec, round, prev>>
    /\ UNCHANGED <<apiVars, threadVars, buildVars, trainVars>>

\* lines 239-240, json.loads raises JSONDecodeError
LoadsFail ==
    /\ pc = "loads"
    /\ ~JsonLoads(json_str).ok
    /\ IF InnerCatches(JSONDecodeError)
       THEN pc' = "regex" /\ exc' = exc
       ELSE pc' = "except" /\ exc' = JSONDecodeError
    /\ UNCHANGED <<doc, content, json_str, result, rec, events, round, prev>>
    /\ UNCHANGED <<apiVars, threadVars, buildVars, trainVars>>

\* the regex tier applied to the candidate instead of the raw content
RegexStepOnCandidate ==
    /\ pc = "regex"
    /\ result' = ExtractFieldsWithRegex(json_str)
    /\ events' = events \cup {"regex"}
    /\ pc' = "defaults"
    /\ UNCHANGED <<doc, content, json_str, exc, rec, round, prev>>
    /\ UNCHANGED <<apiVars, threadVars, buildVars, trainVars>>

\* lines 241-243
RegexStep ==
    /\ pc = "regex"
    /\ result' = ExtractFieldsWithRegex(content)
    /\ events' = events \cup {"regex"}
    /\ pc' = "defaults"
    /\ UNCHANGED <<doc, content, json_str, exc, rec, round, prev>>
    /\ UNCHANGED <<apiVars, threadVars, buildVars, trainVars>>

\* lines 245-251; setdefault is not an attribute of a value that is no dict
DefaultsStep ==
    /\ pc = "defaults"
    /\ IF IsDict(result)
       THEN result' = EnsureDefaults(result) /\ pc' = "coerce" /\ exc' = exc
       ELSE result' = result /\ pc' = "except" /\ exc' = AttributeError(result)
    /\ UNCHANGED <<doc, content, json_str, rec, events, round, prev>>
    /\ UNCHANGED <<apiVars, threadVars, buildVars, trainVars>>

\* lines 253-272
CoerceStep ==
    /\ pc = "coerce"
    /\ LET r1 == ConfidenceFromText(result)
           cf == DictGet(r1, <<"confidence">>)
           r2 == CapConfidence(r1)
           r3 == EnsureList(r2, <<"citations">>)
           r4 == EnsureList(r3, <<"further_reading">>)
       IN  IF Unorderable(cf)
           THEN result' = r1 /\ pc' = "except" /\ exc' = TypeError(cf)
                /\ events' = events
           ELSE result' = r4 /\ pc' = "return" /\ exc' = exc
                /\ events' = events
                    \cup (IF r1 # result THEN {"conf_text"} ELSE {})
                    \cup (IF r2 # r1 THEN {"conf_capped"} ELSE {})
                    \cup (IF r3 # r2 THEN {"citations_reset"} ELSE {})
                    \cup (IF r4 # r3 THEN {"reading_reset"} ELSE {})
    /\ UNCHANGED <<doc, content, json_str, rec, round, prev>>
    /\ UNCHANGED <<apiVars, threadVars, buildVars, trainVars>>

\* line 274
ReturnStep ==
    /\ pc = "return"
    /\ rec' = result
    /\ pc' = "done"
    /\ UNCHANGED <<doc, content, json_str, result, exc, events, round, prev>>
    /\ UNCHANGED <<apiVars, threadVars, buildVars, trainVars>>

\* lines 276-286
ExceptStep ==
    /\ pc = "except"
    /\ IF OuterCatches(exc)
       THEN rec' = ErrorRecord(content, exc) /\ pc' = "done"
            /\ events' = events \cup {"except"}
       ELSE rec' = rec /\ pc' = "raised" /\ events' = events
    /\ UNCHANGED <<doc, content, json_str, result, exc, round, prev>>
    /\ UNCHANGED <<apiVars, threadVars, buildVars, trainVars>>

\* the returned record, written with json.dumps, is parsed again
FeedBack ==
    /\ pc = "done"
    /\ round < MaxRounds
    /\ prev' = rec
    /\ content' = JsonDumps(rec)
    /\ round' = round + 1
    /\ pc' = "extract"
    /\ json_str' = <<>>
    /\ result' = None
    /\ exc' = NoException
    /\ rec' = None
    /\ events' = {}
    /\ UNCHANGED doc
    /\ UNCHANGED <<apiVars, threadVars, buildVars, trainVars>>

Next ==
    \/ Extract
    \/ RepairStep
    \/ LoadsOk
    \/ LoadsFail
    \/ RegexStep
    \/ DefaultsStep
    \/ CoerceStep
    \/ ReturnStep
    \/ ExceptStep
    \/ FeedBack

Spec == Init /\ [][Next]_vars

(***************************************************************************)
(* Properties of the returned record                                       *)
(***************************************************************************)
Done == pc = "done"
Field(r, name) == DictGet(r, <<name>>)
TextFields == {"background", "reasoning", "answer"}

IsNumber(v) == v.t \in {"int", "float", "bool"}

\* the record the catch-all returns for content c
IsErrorRecord(r, c) ==
    /\ IsDict(r)
    /\ Field(r, "background") = Str(<<"Error parsing the response.">>)
    /\ Field(r, "answer") = Str(c)
    /\ Field(r, "confidence") = Float(0)
    /\ Field(r, "reasoning").t = "str"
    /\ Len(Field(r, "reasoning").s) = 2
    /\ Field(r, "reasoning").s[1] = "An error occurred during processing: "

\* the record made of the six defaults alone
DefaultRecord ==
    Dict(<< Member(<<"background">>, NoBackground),
            Member(<<"reasoning">>, NoReasoning),
            Member(<<"answer">>, NoAnswer),
            Member(<<"confidence">>, Float(5)),
            Member(<<"citations">>, List(<<>>)),
            Member(<<"further_reading">>, List(<<>>)) >>)

\* equality of two dicts, which does not depend on the order of the keys
SameMapping(a, b) ==
    /\ IsDict(a) /\ IsDict(b)
    /\ Len(a.items) = Len(b.items)
    /\ \A i \in 1..Len(b.items) :
            /\ HasKey(a, b.items[i].s)
            /\ DictGet(a, b.items[i].s) = b.items[i].items[1]

ProseTokens == {"I", "know", "Sure", "Hope", "see", "http:", "note", SLASHES, SP, NL}
IsProse(c) ==
    /\ \E i \in 1..Len(c) : c[i] \notin Ws
    /\ \A i \in 1..Len(c) : c[i] \in ProseTokens

StructureTokens == {"{", "}", "[", "]", Q, ":", FENCE}
NoJsonStructure(c) == \A i \in 1..Len(c) : c[i] \notin StructureTokens
RegexFindsNothing(c) ==
    /\ \A k \in TextFields : ~TextSearch(c, k).found
    /\ ~NumSearch(c).found

\* a text that is one JSON number or literal
IsBareScalar(t) ==
    \/ Len(t) = 1 /\ t[1] \in IntTokens \cup FloatTokens \cup {"null", "true", "false", "NaN"}
    \/ Len(t) = 2 /\ t[1] = "-" /\ t[2] \in IntTokens \cup FloatTokens

\* the first completion is an object of six valid fields written without defect
ValidObjectIn(wrap) ==
    /\ round = 0
    /\ doc.kind = "object"
    /\ doc.wrap = wrap
    /\ doc.defect = "none"
    /\ \A i \in 1..6 : doc.o[i].valid

\* the record holds exactly the six fields as they were written
ReproducesObject ==
    /\ IsDict(rec)
    /\ Len(rec.items) = 6
    /\ \A i \in 1..6 : Field(rec, FieldNames[i]) = doc.o[i].val

\* equality of two confidences as numbers
SameNumber(a, b) ==
    \/ IsNumber(a) /\ IsNumber(b) /\ a.n = b.n
    \/ a.t = "nan" /\ b.t = "nan"

\* C1: for every raw completion, _parse_response returns an answer record
\* (a mapping holding the six fields) and no exception reaches the caller,
\* whichever recovery tier is reached.
C1_NeverRaises ==
    /\ pc # "raised"
    /\ Done => IsDict(rec) /\ \A i \in 1..6 : HasKey(rec, <<FieldNames[i]>>)

\* C1 witness: an exception was raised inside the body and the catch-all
\* turned it into a record.
C1_Witness == Done /\ "except" \in events /\ exc.kind = "AttributeError"

\* C2 (as claimed): the confidence of the returned record is always a
\* number within [0.0, 1.0].
C2_ConfidenceInUnitInterval ==
    Done => /\ IsNumber(Field(rec, "confidence"))
            /\ Field(rec, "confidence").n >= 0
            /\ Field(rec, "confidence").n <= 10

\* C3: the returned record always holds citations and further_reading, and
\* each is a list.
C3_ListsAlwaysLists ==
    Done => /\ HasKey(rec, <<"citations">>)
            /\ HasKey(rec, <<"further_reading">>)
            /\ Field(rec, "citations").t = "list"
            /\ Field(rec, "further_reading").t = "list"

\* C3 witness: the completion gave citations as text and the record was
\* returned with the list put in its place.
C3_Witness ==
    /\ Done /\ round = 0 /\ doc.kind = "object"
    /\ doc.o[5].form = "word"
    /\ "structured" \in events
    /\ "citations_reset" \in events

\* C4 (as claimed): background, reasoning and answer of the returned record
\* are always non-empty text.
C4_TextFieldsNonEmpty ==
    Done => \A f \in TextFields :
                Field(rec, f).t = "str" /\ Field(rec, f).s # <<>>

\* C5 (as claimed): a json-fenced well-formed object with six valid fields
\* is reproduced exactly.
C5_FencedObjectReproduced ==
    (Done /\ ValidObjectIn("jsonfence")) => ReproducesObject

\* C6 (as claimed): an object whose only defects are line-trailing comments
\* and commas before a closer is parsed on the structured path; present text
\* fields keep their values, a confidence above 1.0 becomes 1.0 and an absent
\* reasoning becomes its placeholder.
C6_RepairedOnStructuredPath ==
    ( /\ Done /\ round = 0 /\ doc.kind = "object" /\ doc.wrap = "bare"
      /\ doc.defect \in {"commas", "comment"}
      /\ doc.o[4].form \in {"num", "absent"} )
    => /\ "structured" \in events
       /\ "regex" \notin events
       /\ \A i \in 1..3 : doc.o[i].form # "absent"
                            => Field(rec, FieldNames[i]) = doc.o[i].val
       /\ (doc.o[4].form = "num" /\ doc.o[4].val.n > 10)
            => Field(rec, "confidence") = Float(10)
       /\ doc.o[2].form = "absent" => Field(rec, "reasoning") = NoReasoning

C8_EmbeddedObjectReproduced ==
    (Done /\ ValidObjectIn("prose"))
    => /\ "braces" \in events
       /\ "structured" \in events
       /\ "regex" \notin events
       /\ ReproducesObject

\* C9 (as claimed): content with no JSON-like structure in which the regex
\* tier matches nothing yields the catastrophic-error record.
C9_NoStructureIsCatastrophic ==
    (Done /\ NoJsonStructure(content) /\ RegexFindsNothing(content))
    => IsErrorRecord(rec, content)

\* C9 (amended): such content yields the catastrophic-error record exactly
\* when, comments removed, it is a bare JSON number or literal; otherwise
\* it yields the record of defaults with confidence 0.5.
C9_CatastrophicOnlyForBareJson ==
    (Done /\ NoJsonStructure(content) /\ RegexFindsNothing(content))
    => IF IsBareScalar(Strip(StripComments(content)))
       THEN IsErrorRecord(rec, content) /\ "except" \in events
       ELSE SameMapping(rec, DefaultRecord) /\ "except" \notin events

\* C9 witness: a bare JSON number was returned as the error record.
C9_Witness ==
    /\ Done /\ NoJsonStructure(content) /\ RegexFindsNothing(content)
    /\ IsBareScalar(Strip(content))
    /\ IsErrorRecord(rec, content)

\* C10 (as claimed): parsing the serialised record again yields the same
\* background, reasoning, answer and confidence.
C10_ScalarsIdempotent ==
    (Done /\ round >= 1)
    => /\ \A f \in TextFields : Field(rec, f) = Field(prev, f)
       /\ SameNumber(Field(rec, "confidence"), Field(prev, "confidence"))

\* the object json.loads made of the repaired candidate of content c
ParsedObject(c) == JsonLoads(Repair(ExtractCandidate(c))).val

\* a confidence that is neither a number nor numeric text
ConfidenceMismatch(v) ==
    \/ v.t \in {"none", "list", "dict"}
    \/ v.t = "str" /\ ~StrToFloat(v.s).ok

\* the structured parse gave an object one of whose fields has the wrong type
TypeMismatchIn(o) ==
    /\ IsDict(o)
    /\ \/ HasKey(o, <<"confidence">>) /\ ConfidenceMismatch(Field(o, "confidence"))
       \/ HasKey(o, <<"citations">>) /\ Field(o, "citations").t # "list"
       \/ HasKey(o, <<"further_reading">>) /\ Field(o, "further_reading").t # "list"

\* C11 (as claimed): when the parsed object holds a confidence that is
\* neither a number nor numeric text, or citations / further_reading that is
\* no list, only that field is replaced: the record carries the object's own
\* background, reasoning and answer and is not the zero-confidence failure
\* record.
C11_TypeMismatchCoercedInPlace ==
    (Done /\ "structured" \in events /\ TypeMismatchIn(ParsedObject(content)))
    => /\ ~IsErrorRecord(rec, content)
       /\ "except" \notin events
       /\ \A f \in TextFields :
            HasKey(ParsedObject(content), <<f>>)
                => Field(rec, f) = Field(ParsedObject(content), f)

Sources == {"fence_json", "fence", "braces", "whole"}

\* the places of the sources in content c, 0 where there is none
TaggedFenceAt(c, i) == At(c, i) = FENCE /\ At(c, i + 1) = "json"
FirstTaggedFence(c) ==
    IF \E i \in 1..Len(c) : TaggedFenceAt(c, i)
    THEN CHOOSE i \in 1..Len(c) :
            TaggedFenceAt(c, i) /\ \A j \in 1..(i - 1) : ~TaggedFenceAt(c, j)
    ELSE 0
FirstFence(c) ==
    IF \E i \in 1..Len(c) : c[i] = FENCE
    THEN CHOOSE i \in 1..Len(c) : c[i] = FENCE /\ \A j \in 1..(i - 1) : c[j] # FENCE
    ELSE 0
HasBraceSpan(c) ==
    \E i \in 1..Len(c) : c[i] = "{" /\ \E j \in (i + 1)..Len(c) : c[j] = "}"

\* the text between the place a and the next fence, trimmed; without a next
\* fence the rest of the content short of its last character
BlockAfter(c, a) ==
    LET closers == {j \in a..Len(c) : c[j] = FENCE}
        rest == [i \in 1..(Len(c) - a + 1) |-> c[a + i - 1]]
        block == IF closers = {}
                 THEN DropLastChar(rest)
                 ELSE LET e == CHOOSE j \in closers : \A k \in closers : j <= k
                      IN  [i \in 1..(e - a) |-> c[a + i - 1]]
    IN  Strip(block)

\* the text from the first { to the last }
FirstToLastBrace(c) ==
    LET a == CHOOSE i \in 1..Len(c) : c[i] = "{" /\ \A j \in 1..(i - 1) : c[j] # "{"
        b == CHOOSE i \in 1..Len(c) : c[i] = "}" /\ \A j \in (i + 1)..Len(c) : c[j] # "}"
    IN  [i \in 1..(b - a + 1) |-> c[a + i - 1]]

\* the source of highest priority that content c holds
SourceOf(c) ==
    IF FirstTaggedFence(c) # 0 THEN "fence_json"
    ELSE IF FirstFence(c) # 0 THEN "fence"
    ELSE IF HasBraceSpan(c) THEN "braces"
    ELSE "whole"

\* C19: the candidate is taken by strict precedence: the block after the
\* first json-tagged fence if there is one anywhere, else the block after
\* the first fence, else the span from the first { to the last }, else the
\* whole content; one source alone is consulted in an invocation, whether or
\* not its text can be parsed.
C19_CandidateByPrecedence ==
    /\ pc # "extract" => events \cap Sources = {SourceOf(content)}
    /\ pc = "repair" =>
        json_str = CASE SourceOf(content) = "fence_json" ->
                            BlockAfter(content, FirstTaggedFence(content) + 2)
                     [] SourceOf(content) = "fence" ->
                            BlockAfter(content, FirstFence(content) + 1)
                     [] SourceOf(content) = "braces" -> FirstToLastBrace(content)
                     [] OTHER -> content
    /\ ( /\ pc = "repair" /\ round = 0 /\ doc.kind = "object"
         /\ \/ doc.wrap \in {"jsonfence", "fence", "prosefence"}
            \/ doc.wrap \in {"bare", "prose"} /\ doc.defect # "unclosed" )
       => json_str = RenderObject(doc.o, doc.defect)

\* C19 witness: the block after a json-tagged fence could not be parsed and
\* the regex tier ran, although the span from the first { to the last } of
\* the same content is an object json.loads accepts.
C19_Witness ==
    /\ Done
    /\ "fence_json" \in events
    /\ "regex" \in events
    /\ BraceSpan(content).found
    /\ JsonLoads(Repair(BraceSpan(content).span)).ok
    /\ IsDict(JsonLoads(Repair(BraceSpan(content).span)).val)

\* C20 (as claimed): when the repaired candidate is valid JSON that is no
\* object (a list, a number, text, true, false, null), the regex tier runs
\* and the record is not the zero-confidence failure record.
C20_NonObjectJsonFallsToRegex ==
    ( /\ Done
      /\ JsonLoads(Repair(ExtractCandidate(content))).ok
      /\ ~IsDict(ParsedObject(content)) )
    => /\ "regex" \in events
       /\ ~IsErrorRecord(rec, content)

(***************************************************************************)
(* The HTTP service: process_query and process_batch over request_cache.   *)
(* The handlers are coroutines on one event loop: a handler runs without   *)
(* interruption up to its next await, and the tasks of a batch resume in   *)
(* any order.  HTTP requests are served one after the other.               *)
(***************************************************************************)
\* the greatest batch limit the environment configures
MaxLimit == 2
\* HTTP requests served one after the other
MaxRequests == 2

\* CACHE_ENABLED, "true" unless the environment says otherwise
CACHE_ENABLED == TRUE

QueryRequest(question, domain, context) ==
    [question |-> question, domain |-> domain, context |-> context]
NoQuery == QueryRequest(None, None, None)

\* the requests clients send: the same question under three (domain, context)
Queries ==
    {QueryRequest(Str(<<"q">>), Str(<<"d">>), Str(<<"c", ":", "e">>)),
     QueryRequest(Str(<<"q">>), Str(<<"d", ":", "c">>), Str(<<"e">>)),
     QueryRequest(Str(<<"q">>), None, None)}

\* x or ''
OrEmpty(v) == IF v.t = "none" THEN <<>> ELSE v.s

\* f"{request.question}:{request.domain or ''}:{request.context or ''}"
CacheKey(q) ==
    q.question.s \o <<":">> \o OrEmpty(q.domain) \o <<":">> \o OrEmpty(q.context)

\* citations as the program returns them
FullCitation ==
    Dict(<< Member(<<"title">>, Str(<<"T">>)),
            Member(<<"authors">>, List(<<Str(<<"N">>)>>)),
            Member(<<"year">>, Int_(20230)),
            Member(<<"source">>, Str(<<"J">>)),
            Member(<<"url">>, Str(UrlText)) >>)
UntitledCitation ==
    Dict(<< Member(<<"authors">>, List(<<Str(<<"N">>)>>)),
            Member(<<"source">>, Str(<<"J">>)) >>)
CitationLists == {<<FullCitation>>, <<UntitledCitation, FullCitation>>}

\* what the program answers to query q; the answer text names the query
AnswerTo(q) ==
    Str(<<"A", "(">> \o q.question.s \o <<"|">> \o OrEmpty(q.domain)
        \o <<"|">> \o OrEmpty(q.context) \o <<")">>)
ProgramResult(q, citations) ==
    Dict(<< Member(<<"background">>, Str(<<"B">>)),
            Member(<<"reasoning">>, Str(<<"R">>)),
            Member(<<"answer">>, AnswerTo(q)),
            Member(<<"confidence">>, Float(9)),
            Member(<<"citations">>, List(citations)),
            Member(<<"further_reading">>, List(<<>>)) >>)

\* the record generate_scientific_answer returns when it could not parse
DirectErrorRecord(c) ==
    Dict(<< Member(<<"background">>, Str(<<"Error parsing the AI response.">>)),
            Member(<<"reasoning">>,
                   Str(<<"The system encountered an error while processing your question.">>)),
            Member(<<"answer">>, Str(c)),
            Member(<<"confidence">>, ZeroConfidence),
            Member(<<"citations">>, List(<<>>)),
            Member(<<"further_reading">>, List(<<>>)) >>)

\* generate_scientific_answer that lets the parsing error escape
generate_scientific_answer_raising(c) ==
    LET candidate == IF FindPair(c, FENCE, "json") # 0
                    THEN FencedBlock(c, FindPair(c, FENCE, "json") + 2)
                    ELSE IF FindTok(c, FENCE, 1) # 0
                    THEN FencedBlock(c, FindTok(c, FENCE, 1) + 1)
                    ELSE c
        loaded == JsonLoads(candidate)
    IN  IF loaded.ok /\ IsDict(loaded.val) THEN EnsureDefaults(loaded.val)
        ELSE None

\* app_direct: the completion is cut out of its fence, parsed and defaulted;
\* any exception on the way gives the error record
generate_scientific_answer(c) ==
    LET candidate == IF FindPair(c, FENCE, "json") # 0
                    THEN FencedBlock(c, FindPair(c, FENCE, "json") + 2)
                    ELSE IF FindTok(c, FENCE, 1) # 0
                    THEN FencedBlock(c, FindTok(c, FENCE, 1) + 1)
                    ELSE c
        loaded == JsonLoads(candidate)
    IN  IF loaded.ok /\ IsDict(loaded.val) THEN EnsureDefaults(loaded.val)
        ELSE DirectErrorRecord(c)

\* completions of the language model that hold no JSON: prose about q, for
\* the query that gives neither domain nor context
DirectCompletions(q) ==
    IF q.domain = None /\ q.context = None
    THEN {<<"I", SP, "know", SP>> \o AnswerTo(q).s}
    ELSE {}

\* what process_query gets for query q: the program's result (app), or what
\* generate_scientific_answer made of the completion (app_direct)
ProgramResults(q) ==
    {ProgramResult(q, cs) : cs \in CitationLists}
        \cup {generate_scientific_answer(c) : c \in DirectCompletions(q)}
AllProgramResults == UNION {ProgramResults(q) : q \in Queries}

\* CitationResponse(**citation): title, authors and source are required
CitationResponse(citation) ==
    IF /\ IsDict(citation)
       /\ DictGet(citation, <<"title">>).t = "str"
       /\ DictGet(citation, <<"authors">>).t = "list"
       /\ DictGet(citation, <<"source">>).t = "str"
       /\ DictGet(citation, <<"year">>).t \in {"int", "none"}
       /\ DictGet(citation, <<"url">>).t \in {"str", "none"}
    THEN [ok |-> TRUE,
          val |-> Dict(<< Member(<<"title">>, DictGet(citation, <<"title">>)),
                          Member(<<"authors">>, DictGet(citation, <<"authors">>)),
                          Member(<<"year">>, DictGet(citation, <<"year">>)),
                          Member(<<"source">>, DictGet(citation, <<"source">>)),
                          Member(<<"url">>, DictGet(citation, <<"url">>)) >>)]
    ELSE [ok |-> FALSE, val |-> None]

\* AnswerResponse(background=result.get("background"), ...): ok is FALSE
\* where pydantic raises ValidationError
AnswerResponse(result0) ==
    LET cs == IF HasKey(result0, <<"citations">>)
              THEN DictGet(result0, <<"citations">>) ELSE List(<<>>)
    IN  IF /\ \A f \in {"background", "reasoning", "answer"} :
                    DictGet(result0, <<f>>).t = "str"
           /\ DictGet(result0, <<"confidence">>).t \in {"int", "float", "bool", "nan"}
           /\ cs.t = "list"
           /\ \A i \in 1..Len(cs.items) : CitationResponse(cs.items[i]).ok
           /\ DictGet(result0, <<"further_reading">>).t \in {"list", "none"}
        THEN [ok |-> TRUE,
              val |-> Dict(<<
                    Member(<<"background">>, DictGet(result0, <<"background">>)),
                    Member(<<"reasoning">>, DictGet(result0, <<"reasoning">>)),
                    Member(<<"answer">>, DictGet(result0, <<"answer">>)),
                    Member(<<"confidence">>, DictGet(result0, <<"confidence">>)),
                    Member(<<"citations">>,
                           List([i \in 1..Len(cs.items) |->
                                    CitationResponse(cs.items[i]).val])),
                    Member(<<"further_reading">>,
                           DictGet(result0, <<"further_reading">>)) >>)]
        ELSE [ok |-> FALSE, val |-> None]

\* a call of process_query: where it is and what it returned or raised
NewTask ==
    [pc |-> "new", status_code |-> 0, value |-> None, hit |-> FALSE,
     from |-> NoQuery, result |-> None]
\* return response
Returned(response, hit, from, result0) ==
    [pc |-> "done", status_code |-> 200, value |-> response, hit |-> hit,
     from |-> from, result |-> result0]
\* raise HTTPException(status_code=500, detail=f"Error processing query: {str(e)}")
Raised(cause, result0) ==
    [pc |-> "done", status_code |-> 500,
     value |-> Str(<<"Error processing query: ", cause>>), hit |-> FALSE,
     from |-> NoQuery, result |-> result0]

\* a cache fill that keeps the entry a key already has
CachePutIfAbsent(cache, key, entry) ==
    [k \in (DOMAIN cache) \cup {key} |->
        IF k \in DOMAIN cache THEN cache[k] ELSE entry]

\* request_cache[cache_key] = response; the entry also records the query it
\* was stored for
CachePut(cache, key, entry) ==
    [k \in (DOMAIN cache) \cup {key} |-> IF k = key THEN entry ELSE cache[k]]
CacheDrop(cache, key) == [k \in (DOMAIN cache) \ {key} |-> cache[k]]

\* the batch size test that admits only sizes below the limit
ExceedsLimitInclusive(n, limit) == n >= limit

\* len(request.queries) > MAX_CONCURRENT_REQUESTS
ExceedsLimit(n, limit) == n > limit

\* results listed in the order the tasks finished
GatherInCompletionOrder(ts, order) == [i \in 1..Len(ts) |-> ts[order[i]]]

\* asyncio.gather(*tasks, return_exceptions=True): results in the order of
\* the awaitables, whatever order they finished in
GatherResults(ts, order) == [i \in 1..Len(ts) |-> ts[i]]

\* the placeholder appended for a result that is an exception
ErrorPlaceholder(t) ==
    Dict(<< Member(<<"error">>, Str(<<"500: ">> \o t.value.s)),
            Member(<<"background">>, Str(<<>>)),
            Member(<<"reasoning">>, Str(<<>>)),
            Member(<<"answer">>, Str(<<"Error processing question">>)),
            Member(<<"confidence">>, Float(0)),
            Member(<<"citations">>, List(<<>>)) >>)

\* the loop over results at the end of process_batch
BatchResponses(results) ==
    [i \in 1..Len(results) |->
        IF results[i].status_code # 200 THEN ErrorPlaceholder(results[i])
        ELSE results[i].value]

InitApi ==
    /\ MAX_CONCURRENT_REQUESTS \in 1..MaxLimit
    /\ request_cache = <<>>
    /\ request = NoRequest
    /\ tasks = <<>>
    /\ completed = <<>>
    /\ reply = NoReply
    /\ served = 0
    /\ work = NoWork
    /\ NoParser /\ NoThreads /\ NoBuild /\ NoTrain

Idle == request = NoRequest \/ reply # NoReply
InService == request # NoRequest /\ reply = NoReply

\* POST /query arrives
ReceiveQuery(q) ==
    /\ Idle
    /\ served < MaxRequests
    /\ request' = [endpoint |-> "query", queries |-> <<q>>]
    /\ tasks' = <<NewTask>>
    /\ completed' = <<>>
    /\ reply' = NoReply
    /\ served' = served + 1
    /\ work' = NoWork
    /\ UNCHANGED <<MAX_CONCURRENT_REQUESTS, request_cache>>
    /\ UNCHANGED <<parserVars, threadVars, buildVars, trainVars>>

\* POST /batch arrives with more queries than the limit: HTTP 400
BatchRejected(qs) ==
    /\ Idle
    /\ served < MaxRequests
    /\ ExceedsLimit(Len(qs), MAX_CONCURRENT_REQUESTS)
    /\ request' = [endpoint |-> "batch", queries |-> qs]
    /\ tasks' = <<>>
    /\ completed' = <<>>
    /\ reply' = [status_code |-> 400,
                 body |-> Str(<<"Batch size exceeds maximum allowed">>)]
    /\ served' = served + 1
    /\ work' = NoWork
    /\ UNCHANGED <<MAX_CONCURRENT_REQUESTS, request_cache>>
    /\ UNCHANGED <<parserVars, threadVars, buildVars, trainVars>>

\* POST /batch arrives within the limit: one process_query per query
BatchAccepted(qs) ==
    /\ Idle
    /\ served < MaxRequests
    /\ ~ExceedsLimit(Len(qs), MAX_CONCURRENT_REQUESTS)
    /\ request' = [endpoint |-> "batch", queries |-> qs]
    /\ tasks' = [i \in 1..Len(qs) |-> NewTask]
    /\ completed' = <<>>
    /\ reply' = NoReply
    /\ served' = served + 1
    /\ work' = NoWork
    /\ UNCHANGED <<MAX_CONCURRENT_REQUESTS, request_cache>>
    /\ UNCHANGED <<parserVars, threadVars, buildVars, trainVars>>

\* a process_query call may start once the calls before it have started
MayStart(i) ==
    /\ InService
    /\ i \in 1..Len(tasks)
    /\ tasks[i].pc = "new"
    /\ \A j \in 1..(i - 1) : tasks[j].pc # "new"

\* a cache hit that stores the entry it found once more
CacheHitRefreshing(i) ==
    /\ MayStart(i)
    /\ CACHE_ENABLED
    /\ CacheKey(request.queries[i]) \in DOMAIN request_cache
    /\ LET entry == request_cache[CacheKey(request.queries[i])]
       IN  /\ tasks' = [tasks EXCEPT ![i] = Returned(entry.response, TRUE, entry.query, None)]
           /\ request_cache' = CachePut(request_cache, CacheKey(request.queries[i]), entry)
    /\ completed' = Append(completed, i)
    /\ work' = [work EXCEPT !.cache_reads = @ + 1, !.cache_writes = @ + 1]
    /\ UNCHANGED <<MAX_CONCURRENT_REQUESTS, request, reply, served>>
    /\ UNCHANGED <<parserVars, threadVars, buildVars, trainVars>>

\* process_query finds its key in the cache and returns the cached response
CacheHit(i) ==
    /\ MayStart(i)
    /\ CACHE_ENABLED
    /\ CacheKey(request.queries[i]) \in DOMAIN request_cache
    /\ LET entry == request_cache[CacheKey(request.queries[i])]
       IN  tasks' = [tasks EXCEPT ![i] = Returned(entry.response, TRUE, entry.query, None)]
    /\ completed' = Append(completed, i)
    /\ work' = [work EXCEPT !.cache_reads = @ + 1]
    /\ UNCHANGED <<MAX_CONCURRENT_REQUESTS, request_cache, request, reply, served>>
    /\ UNCHANGED <<parserVars, threadVars, buildVars, trainVars>>

\* process_query finds nothing and awaits the program
CacheMiss(i) ==
    /\ MayStart(i)
    /\ ~(CACHE_ENABLED /\ CacheKey(request.queries[i]) \in DOMAIN request_cache)
    /\ tasks' = [tasks EXCEPT ![i].pc = "awaiting"]
    /\ work' = [work EXCEPT !.cache_reads = @ + (IF CACHE_ENABLED THEN 1 ELSE 0),
                            !.model_calls = @ + 1]
    /\ UNCHANGED <<MAX_CONCURRENT_REQUESTS, request_cache, request, completed,
                   reply, served>>
    /\ UNCHANGED <<parserVars, threadVars, buildVars, trainVars>>

\* the program returns: the response is built, stored and returned, or the
\* validation error is turned into HTTP 500
ProgramReturns(i, result0) ==
    /\ InService
    /\ i \in 1..Len(tasks)
    /\ tasks[i].pc = "awaiting"
    /\ result0 \in ProgramResults(request.queries[i])
    /\ LET response == AnswerResponse(result0)
           q == request.queries[i]
       IN  IF response.ok
           THEN /\ tasks' = [tasks EXCEPT ![i] = Returned(response.val, FALSE, q, result0)]
                /\ IF CACHE_ENABLED
                   THEN /\ request_cache' =
                            CachePut(request_cache, CacheKey(q),
                                     [response |-> response.val, query |-> q])
                        /\ work' = [work EXCEPT !.cache_writes = @ + 1]
                   ELSE UNCHANGED <<request_cache, work>>
           ELSE /\ tasks' = [tasks EXCEPT ![i] = Raised("validation error", result0)]
                /\ UNCHANGED <<request_cache, work>>
    /\ completed' = Append(completed, i)
    /\ UNCHANGED <<MAX_CONCURRENT_REQUESTS, request, reply, served>>
    /\ UNCHANGED <<parserVars, threadVars, buildVars, trainVars>>

\* a failure of the program that leaves its message in the cache
ProgramRaisesAndCaches(i) ==
    /\ InService
    /\ i \in 1..Len(tasks)
    /\ tasks[i].pc = "awaiting"
    /\ tasks' = [tasks EXCEPT ![i] = Raised("model error", None)]
    /\ request_cache' =
            CachePut(request_cache, CacheKey(request.queries[i]),
                     [response |-> Raised("model error", None).value,
                      query |-> request.queries[i]])
    /\ completed' = Append(completed, i)
    /\ UNCHANGED <<MAX_CONCURRENT_REQUESTS, request, reply, served, work>>
    /\ UNCHANGED <<parserVars, threadVars, buildVars, trainVars>>

\* the program raises
ProgramRaises(i) ==
    /\ InService
    /\ i \in 1..Len(tasks)
    /\ tasks[i].pc = "awaiting"
    /\ tasks' = [tasks EXCEPT ![i] = Raised("model error", None)]
    /\ completed' = Append(completed, i)
    /\ UNCHANGED <<MAX_CONCURRENT_REQUESTS, request_cache, request, reply, served, work>>
    /\ UNCHANGED <<parserVars, threadVars, buildVars, trainVars>>

\* the reply to /query is what process_query returned or raised
QueryReply ==
    /\ InService
    /\ request.endpoint = "query"
    /\ tasks[1].pc = "done"
    /\ reply' = [status_code |-> tasks[1].status_code, body |-> tasks[1].value]
    /\ UNCHANGED <<MAX_CONCURRENT_REQUESTS, request_cache, request, tasks,
                   completed, served, work>>
    /\ UNCHANGED <<parserVars, threadVars, buildVars, trainVars>>

\* gather returns once every task is done; process_batch returns the list
BatchReply ==
    /\ InService
    /\ request.endpoint = "batch"
    /\ \A i \in 1..Len(tasks) : tasks[i].pc = "done"
    /\ reply' = [status_code |-> 200,
                 body |-> List(BatchResponses(GatherResults(tasks, completed)))]
    /\ UNCHANGED <<MAX_CONCURRENT_REQUESTS, request_cache, request, tasks,
                   completed, served, work>>
    /\ UNCHANGED <<parserVars, threadVars, buildVars, trainVars>>

\* an entry of the TTLCache reaches its time to live
Expire(key) ==
    /\ key \in DOMAIN request_cache
    /\ request_cache' = CacheDrop(request_cache, key)
    /\ UNCHANGED <<MAX_CONCURRENT_REQUESTS, request, tasks, completed, reply,
                   served, work>>
    /\ UNCHANGED <<parserVars, threadVars, buildVars, trainVars>>

\* the batches clients send: every batch up to the greatest limit, and
\* batches one query longer that repeat one query
Batches ==
    UNION {[1..n -> Queries] : n \in 0..MaxLimit}
        \cup {[i \in 1..(MaxLimit + 1) |-> q] : q \in Queries}

NextApi ==
    \/ \E q \in Queries : ReceiveQuery(q)
    \/ \E qs \in Batches : BatchRejected(qs)
    \/ \E qs \in Batches : BatchAccepted(qs)
    \/ \E i \in 1..MaxLimit : CacheHit(i)
    \/ \E i \in 1..MaxLimit : CacheMiss(i)
    \/ \E i \in 1..MaxLimit : \E r \in AllProgramResults : ProgramReturns(i, r)
    \/ \E i \in 1..MaxLimit : ProgramRaises(i)
    \/ QueryReply
    \/ BatchReply
    \/ \E q \in Queries : Expire(CacheKey(q))

SpecApi == InitApi /\ [][NextApi]_vars

(***************************************************************************)
(* Properties of the HTTP service                                          *)
(***************************************************************************)
TaskIds == 1..Len(tasks)

\* the entries of a citations list that carry a title
Titled(citations) ==
    SelectSeq(citations, LAMBDA c : HasKey(c, <<"title">>))
HasUntitled(result0) ==
    /\ IsDict(result0)
    /\ \E i \in 1..Len(Field(result0, "citations").items) :
            ~HasKey(Field(result0, "citations").items[i], <<"title">>)

\* two queries are the same (question, domain, context), an absent domain
\* or context counting as the empty text
SameTriple(a, b) ==
    /\ a.question = b.question
    /\ OrEmpty(a.domain) = OrEmpty(b.domain)
    /\ OrEmpty(a.context) = OrEmpty(b.context)

\* C12 (as claimed): when the program's result holds a citation without a
\* title, the call still succeeds: the response carries the result's
\* background, reasoning, answer and confidence and the citations that have
\* a title, the one without being dropped; /query replies 200.
C12_UntitledCitationDropped ==
    /\ \A i \in TaskIds :
        (tasks[i].pc = "done" /\ HasUntitled(tasks[i].result))
        => /\ tasks[i].status_code = 200
           /\ IsDict(tasks[i].value)
           /\ \A f \in {"background", "reasoning", "answer", "confidence"} :
                Field(tasks[i].value, f) = Field(tasks[i].result, f)
           /\ Len(Field(tasks[i].value, "citations").items)
                = Len(Titled(Field(tasks[i].result, "citations").items))
    /\ ( /\ request.endpoint = "query" /\ reply # NoReply
         /\ HasUntitled(tasks[1].result) )
       => reply.status_code = 200

\* C13 (as claimed): a call answered from the cache gets a response that
\* was stored for its own (question, domain, context), never one stored
\* for a different triple.
C13_CacheEntryPerTriple ==
    \A i \in TaskIds :
        tasks[i].hit => SameTriple(tasks[i].from, request.queries[i])

\* C14: a batch of more queries than MAX_CONCURRENT_REQUESTS is answered
\* 400 without any call of process_query: no model call, no cache read, no
\* cache write; a batch of exactly MAX_CONCURRENT_REQUESTS queries is
\* accepted and answered 200.
C14_OversizeBatchRejected ==
    request.endpoint = "batch"
    => /\ Len(request.queries) > MAX_CONCURRENT_REQUESTS
            => /\ reply.status_code = 400
               /\ tasks = <<>>
               /\ work = NoWork
       /\ Len(request.queries) = MAX_CONCURRENT_REQUESTS
            => /\ reply.status_code \in {0, 200}
               /\ Len(tasks) = MAX_CONCURRENT_REQUESTS

\* C14 witness: a batch one query above the limit was rejected while the
\* cache held an entry for one of its queries.
C14_Witness ==
    /\ request.endpoint = "batch"
    /\ Len(request.queries) = MAX_CONCURRENT_REQUESTS + 1
    /\ reply.status_code = 400
    /\ \E i \in 1..Len(request.queries) :
            CacheKey(request.queries[i]) \in DOMAIN request_cache

\* C15: the reply to an accepted batch holds one entry per query, in the
\* order of the queries, whatever order the calls finished in; the entry of
\* a call that raised is the placeholder with answer "Error processing
\* question", confidence 0.0 and no citations, and the entry of every other
\* call is the response that call returned.
C15_BatchKeepsQueryOrder ==
    (request.endpoint = "batch" /\ reply.status_code = 200)
    => /\ reply.body.t = "list"
       /\ Len(reply.body.items) = Len(request.queries)
       /\ \A i \in 1..Len(request.queries) :
            LET entry == reply.body.items[i]
            IN  IF tasks[i].status_code = 200
                THEN entry = tasks[i].value
                ELSE /\ Field(entry, "answer") = Str(<<"Error processing question">>)
                     /\ Field(entry, "confidence") = Float(0)
                     /\ Field(entry, "citations") = List(<<>>)
                     /\ Field(entry, "error") = Str(<<"500: ">> \o tasks[i].value.s)
       /\ \A i \in 1..Len(request.queries) :
            (tasks[i].status_code = 200 /\ ~tasks[i].hit)
                => Field(reply.body.items[i], "answer")
                    \in {Field(r, "answer") : r \in ProgramResults(request.queries[i])}

\* C15 witness: the second call of a batch finished before the first, one
\* of the two raised and the other returned a response.
C15_Witness ==
    /\ request.endpoint = "batch"
    /\ reply.status_code = 200
    /\ Len(tasks) >= 2
    /\ completed[1] = 2
    /\ tasks[1].status_code # tasks[2].status_code

(***************************************************************************)
(* ScientificQAProgram.build and the citation lookup it wires in: the      *)
(* action asks the language model for the arguments of lookup_citations,   *)
(* calls it and hands its mapping on; the generator follows.               *)
(***************************************************************************)
\* the greatest max_results the language model passes
MaxResults == 3

\* the topics the language model passes
Topics == {<<"quantum", SP, "mechanics">>, <<"DNA", SP, "Repair">>, <<"DNA">>, <<>>}

\* str.lower()
LowerTok(tok) ==
    CASE tok = "DNA" -> "dna"
      [] tok = "Repair" -> "repair"
      [] OTHER -> tok
Lower(toks) == [i \in 1..Len(toks) |-> LowerTok(toks[i])]

\* str.replace(' ', '-')
ReplaceSpaces(toks) == [i \in 1..Len(toks) |-> IF toks[i] = SP THEN "-" ELSE toks[i]]

\* a slice that keeps every element
TakeAll(seq, n) == seq

\* seq[:n]
Take(seq, n) ==
    IF n >= Len(seq) THEN seq
    ELSE IF n >= 0 THEN SubSeq(seq, 1, n)
    ELSE IF Len(seq) + n > 0 THEN SubSeq(seq, 1, Len(seq) + n)
    ELSE <<>>

lookup_citations(topic, max_results) ==
    LET slug == ReplaceSpaces(Lower(topic))
        citations ==
            << [title |-> <<"Understanding ">> \o topic \o <<": A Comprehensive Review">>,
                authors |-> <<"A. Researcher", "B. Scientist">>,
                year |-> 2023,
                source |-> <<"Journal of Science">>,
                url |-> <<"https://example.com/science/">> \o slug],
               [title |-> <<"Advanced ">> \o topic \o <<" Techniques">>,
                authors |-> <<"C. Expert", "D. Scholar">>,
                year |-> 2022,
                source |-> <<"Scientific Reports">>,
                url |-> <<"https://example.com/reports/">> \o slug] >>
    IN  [citations |-> Take(citations, max_results)]

\* the arguments build is called with
BuildInputs ==
    {[question |-> q, domain |-> d] :
        q \in {<<"How does quantum entanglement work?">>, <<"What is DNA?">>},
        d \in {<<"physics">>, <<"biology">>}}

\* a generator that is always given the argument of build
GeneratorInputOriginal(use, inputs0, action_output0) == inputs0

\* inputs if not self.use_citation_lookup else action_output
GeneratorInput(use, inputs0, action_output0) ==
    IF ~use THEN inputs0 ELSE action_output0

Invoked(component, argument) == [component |-> component, argument |-> argument]

InitBuild ==
    /\ use_citation_lookup \in BOOLEAN
    /\ inputs \in BuildInputs
    /\ build_pc = "lookup"
    /\ lookup_call = NoLookup
    /\ action_output = None
    /\ outputs = None
    /\ trace = <<>>
    /\ NoParser /\ NoService /\ NoThreads /\ NoTrain

\* action_output = await synalinks.Action(fn=lookup_citations, ...)(inputs)
LookupStep(topic, max_results) ==
    /\ build_pc = "lookup"
    /\ use_citation_lookup
    /\ lookup_call' = [topic |-> topic, max_results |-> max_results,
                       returned |-> lookup_citations(topic, max_results)]
    /\ action_output' = lookup_citations(topic, max_results)
    /\ trace' = Append(trace, Invoked("Action", inputs))
    /\ build_pc' = "generate"
    /\ UNCHANGED <<use_citation_lookup, inputs, outputs>>
    /\ UNCHANGED <<parserVars, apiVars, threadVars, trainVars>>

\* the action raises and build ends
LookupRaises ==
    /\ build_pc = "lookup"
    /\ use_citation_lookup
    /\ trace' = Append(trace, Invoked("Action", inputs))
    /\ build_pc' = "raised"
    /\ UNCHANGED <<use_citation_lookup, inputs, lookup_call, action_output, outputs>>
    /\ UNCHANGED <<parserVars, apiVars, threadVars, trainVars>>

\* if self.use_citation_lookup: is False
SkipLookup ==
    /\ build_pc = "lookup"
    /\ ~use_citation_lookup
    /\ build_pc' = "generate"
    /\ UNCHANGED <<use_citation_lookup, inputs, lookup_call, action_output, outputs, trace>>
    /\ UNCHANGED <<parserVars, apiVars, threadVars, trainVars>>

\* outputs = await synalinks.Generator(...)(...)
GenerateStep ==
    /\ build_pc = "generate"
    /\ LET argument == GeneratorInput(use_citation_lookup, inputs, action_output)
       IN  /\ trace' = Append(trace, Invoked("Generator", argument))
           /\ outputs' = [generated_from |-> argument]
    /\ build_pc' = "init"
    /\ UNCHANGED <<use_citation_lookup, inputs, lookup_call, action_output>>
    /\ UNCHANGED <<parserVars, apiVars, threadVars, trainVars>>

\* the generator raises and build ends
GenerateRaises ==
    /\ build_pc = "generate"
    /\ trace' = Append(trace, Invoked("Generator",
                    GeneratorInput(use_citation_lookup, inputs, action_output)))
    /\ build_pc' = "raised"
    /\ UNCHANGED <<use_citation_lookup, inputs, lookup_call, action_output, outputs>>
    /\ UNCHANGED <<parserVars, apiVars, threadVars, trainVars>>

\* super().__init__(inputs=inputs, outputs=outputs, ...)
FinishBuild ==
    /\ build_pc = "init"
    /\ build_pc' = "built"
    /\ UNCHANGED <<use_citation_lookup, inputs, lookup_call, action_output, outputs, trace>>
    /\ UNCHANGED <<parserVars, apiVars, threadVars, trainVars>>

NextBuild ==
    \/ \E topic \in Topics : \E max_results \in 0..MaxResults :
            LookupStep(topic, max_results)
    \/ LookupRaises
    \/ SkipLookup
    \/ GenerateStep
    \/ GenerateRaises
    \/ FinishBuild

SpecBuild == InitBuild /\ [][NextBuild]_vars

(***************************************************************************)
(* Properties of build and of lookup_citations                             *)
(***************************************************************************)
\* part occurs in text
Contains(text, part) ==
    \E i \in 0..(Len(text) - Len(part)) :
        \A j \in 1..Len(part) : text[i + j] = part[j]

CitationKeys == {"title", "authors", "year", "source", "url"}

\* C17: with the lookup enabled build invokes the action once, on its own
\* argument, and after it the generator once, on what the action returned;
\* with the lookup disabled the action is never invoked and the generator
\* is invoked once, on the argument of build.
C17_ActionThenGenerator ==
    /\ use_citation_lookup
        => /\ Len(trace) <= 2
           /\ Len(trace) >= 1 => trace[1] = Invoked("Action", inputs)
           /\ Len(trace) = 2
                => /\ trace[2] = Invoked("Generator", action_output)
                   /\ action_output = lookup_call.returned
                   /\ lookup_call # NoLookup
    /\ (~use_citation_lookup /\ build_pc # "off")
        => /\ Len(trace) <= 1
           /\ Len(trace) = 1 => trace[1] = Invoked("Generator", inputs)
           /\ lookup_call = NoLookup
    /\ build_pc = "built"
        => /\ Len(trace) = (IF use_citation_lookup THEN 2 ELSE 1)
           /\ outputs = [generated_from |-> trace[Len(trace)].argument]

\* C17 witness: a build with the lookup enabled ran to its end.
C17_Witness ==
    /\ build_pc = "built"
    /\ use_citation_lookup
    /\ Len(trace) = 2
    /\ Len(action_output.citations) > 0

\* C18: lookup_citations(topic, max_results) returns a mapping whose
\* "citations" is a list of at most max_results entries, not empty when
\* max_results >= 1; every entry has title, authors, year, source and url,
\* and its title holds the topic text.
C18_LookupReturnsCitations ==
    lookup_call # NoLookup
    => LET cs == lookup_call.returned.citations
       IN  /\ DOMAIN lookup_call.returned = {"citations"}
           /\ Len(cs) <= lookup_call.max_results
           /\ lookup_call.max_results >= 1 => Len(cs) >= 1
           /\ \A i \in 1..Len(cs) :
                /\ DOMAIN cs[i] = CitationKeys
                /\ Contains(cs[i].title, lookup_call.topic)

\* C18 witness: a lookup with max_results = 1 on a topic of several words
\* returned one citation.
C18_Witness ==
    /\ lookup_call # NoLookup
    /\ lookup_call.max_results = 1
    /\ Len(lookup_call.topic) > 1
    /\ Len(lookup_call.returned.citations) = 1

(***************************************************************************)
(* Concurrent invocations of _parse_response.  Every call has a frame of   *)
(* its own for the locals; the calls take their statements in any order.   *)
(***************************************************************************)
\* invocations in flight at once
MaxInvocations == 2

\* the contents the concurrent callers pass
ThreadContents ==
    {<<FENCE, "json", NL, "{">> \o <<Q, "answer", Q, ":">> \o Quoted(<<"A">>)
        \o <<"}", NL, FENCE>>,
     <<"{", Q, "answer", Q, ":">> \o Quoted(<<"A">>)
        \o <<SP, Q, "confidence", Q, ":", "0.9", "}">>,
     <<"Sure", SP, "{", Q, "confidence", Q, ":", "null", ",", "}">>,
     <<"Sure">>,
     <<"5">>}

NewInvocation(c) == [content |-> c, pc |-> "extract", rec |-> None, overlapped |-> FALSE]
NewFrame == [json_str |-> <<>>, result |-> None, exc |-> NoException]

\* one frame used by every call
SharedFrame(i) == 1

\* the frame that holds the locals of call i
Frame(i) == i

\* the statement of _parse_response at inv.pc, run on the locals in fr
ParseStep(inv, fr) ==
    CASE inv.pc = "extract" ->
            [inv |-> [inv EXCEPT !.pc = "repair"],
             fr |-> [fr EXCEPT !.json_str = ExtractCandidate(inv.content)]]
      [] inv.pc = "repair" ->
            [inv |-> [inv EXCEPT !.pc = "loads"],
             fr |-> [fr EXCEPT !.json_str = Repair(fr.json_str)]]
      [] inv.pc = "loads" ->
            IF JsonLoads(fr.json_str).ok
            THEN [inv |-> [inv EXCEPT !.pc = "defaults"],
                  fr |-> [fr EXCEPT !.result = JsonLoads(fr.json_str).val]]
            ELSE IF InnerCatches(JSONDecodeError)
            THEN [inv |-> [inv EXCEPT !.pc = "regex"], fr |-> fr]
            ELSE [inv |-> [inv EXCEPT !.pc = "except"],
                  fr |-> [fr EXCEPT !.exc = JSONDecodeError]]
      [] inv.pc = "regex" ->
            [inv |-> [inv EXCEPT !.pc = "defaults"],
             fr |-> [fr EXCEPT !.result = ExtractFieldsWithRegex(inv.content)]]
      [] inv.pc = "defaults" ->
            IF IsDict(fr.result)
            THEN [inv |-> [inv EXCEPT !.pc = "coerce"],
                  fr |-> [fr EXCEPT !.result = EnsureDefaults(fr.result)]]
            ELSE [inv |-> [inv EXCEPT !.pc = "except"],
                  fr |-> [fr EXCEPT !.exc = AttributeError(fr.result)]]
      [] inv.pc = "coerce" ->
            LET r1 == ConfidenceFromText(fr.result)
                cf == DictGet(r1, <<"confidence">>)
            IN  IF Unorderable(cf)
                THEN [inv |-> [inv EXCEPT !.pc = "except"],
                      fr |-> [fr EXCEPT !.result = r1, !.exc = TypeError(cf)]]
                ELSE [inv |-> [inv EXCEPT !.pc = "return"],
                      fr |-> [fr EXCEPT !.result =
                                EnsureList(EnsureList(CapConfidence(r1), <<"citations">>),
                                           <<"further_reading">>)]]
      [] inv.pc = "return" ->
            [inv |-> [inv EXCEPT !.pc = "done", !.rec = fr.result], fr |-> fr]
      [] inv.pc = "except" ->
            IF OuterCatches(fr.exc)
            THEN [inv |-> [inv EXCEPT !.pc = "done",
                                      !.rec = ErrorRecord(inv.content, fr.exc)],
                  fr |-> fr]
            ELSE [inv |-> [inv EXCEPT !.pc = "raised"], fr |-> fr]
      [] OTHER -> [inv |-> inv, fr |-> fr]

Returning(inv) == inv.pc \in {"done", "raised"}
InFlight(inv) == inv.pc \notin {"extract", "done", "raised"}

InitThreads ==
    /\ invocations \in [1..MaxInvocations -> {NewInvocation(c) : c \in ThreadContents}]
    /\ frames = [i \in 1..MaxInvocations |-> NewFrame]
    /\ NoParser /\ NoService /\ NoBuild /\ NoTrain

\* call i runs its next statement
Step(i) ==
    /\ ~Returning(invocations[i])
    /\ LET n == ParseStep(invocations[i], frames[Frame(i)])
           among == \E j \in 1..MaxInvocations : j # i /\ InFlight(invocations[j])
       IN  /\ invocations' =
                [invocations EXCEPT ![i] = [n.inv EXCEPT !.overlapped = @ \/ among]]
           /\ frames' = [frames EXCEPT ![Frame(i)] = n.fr]
    /\ UNCHANGED <<parserVars, apiVars, buildVars, trainVars>>

NextThreads == \E i \in 1..MaxInvocations : Step(i)

SpecThreads == InitThreads /\ [][NextThreads]_vars

\* _parse_response run alone on content c
RECURSIVE RunAlone(_, _)
RunAlone(inv, fr) ==
    IF Returning(inv) THEN inv
    ELSE RunAlone(ParseStep(inv, fr).inv, ParseStep(inv, fr).fr)
ParseAlone(c) == RunAlone(NewInvocation(c), NewFrame)

\* C16: in every interleaving of the invocations in flight each returns the
\* record it returns when run alone on its own content, so the record
\* depends on that content only, and two invocations on equal content
\* return equal records.
C16_InvocationsIndependent ==
    /\ \A i \in DOMAIN invocations :
        /\ invocations[i].pc # "raised"
        /\ invocations[i].pc = "done"
            => invocations[i].rec = ParseAlone(invocations[i].content).rec
    /\ \A i, j \in DOMAIN invocations :
        ( /\ invocations[i].pc = "done" /\ invocations[j].pc = "done"
          /\ invocations[i].content = invocations[j].content )
        => invocations[i].rec = invocations[j].rec

\* C16 witness: two invocations on different contents ran their statements
\* in between each other's and returned different records.
C16_Witness ==
    /\ Len(invocations) >= 2
    /\ invocations[1].pc = "done" /\ invocations[2].pc = "done"
    /\ invocations[1].overlapped /\ invocations[2].overlapped
    /\ invocations[1].content # invocations[2].content
    /\ invocations[1].rec # invocations[2].rec

(***************************************************************************)
(* The regex tier and the repair, seen from the whole parse                *)
(***************************************************************************)
\* lines 253-272 applied to a mapping whose confidence can be ordered
Coerced(r) ==
    EnsureList(EnsureList(CapConfidence(ConfidenceFromText(r)), <<"citations">>),
               <<"further_reading">>)

AfterLoads == {"defaults", "coerce", "return", "except", "done"}

\* C21: the regex extraction runs exactly when json.loads rejected the
\* candidate (json_str, extracted and repaired); it has not run before the parser stands at it, so it runs once;
\* it searches the raw content, not the candidate; and what it finds goes
\* through the same setdefault calls and coercions as a parsed object.
C21_RegexIffParseFailed ==
    /\ pc = "regex" => "regex" \notin events
    /\ pc \in AfterLoads =>
        /\ "regex" \in events <=> "structured" \notin events
        /\ pc \in {"defaults", "done"} =>
            ("regex" \in events <=> ~JsonLoads(json_str).ok)
    /\ (pc = "defaults" /\ "regex" \in events) =>
        /\ result = ExtractFieldsWithRegex(content)
        /\ "structured" \notin events
    /\ (Done /\ "regex" \in events) =>
        /\ "except" \notin events
        /\ rec = Coerced(EnsureDefaults(ExtractFieldsWithRegex(content)))

\* C21 witness: the regex tier ran and found in the raw content what it would
\* not have found in the repaired candidate.
C21_Witness ==
    /\ Done
    /\ "regex" \in events
    /\ ExtractFieldsWithRegex(content)
         # ExtractFieldsWithRegex(Repair(ExtractCandidate(content)))

\* the value [0.0, 1.0] holds for a number given in tenths
Clamped(n) == IF n > 10 THEN 10 ELSE IF n < 0 THEN 0 ELSE n

\* the confidence claimed for a confidence member written as cf
ClaimedConfidence(cf) ==
    CASE cf.form = "num" -> Clamped(cf.val.n)
      [] cf.form = "numtext" -> Clamped(StrToFloat(cf.val.s).val.n)
      [] OTHER -> HalfConfidence.n

\* C22 (as claimed): the returned confidence is a fixed function of the
\* confidence written in the raw content: a number or a text that converts to
\* a number is clamped to [0.0, 1.0], an absent or non-numeric text gives 0.5;
\* the same on the structured path and on the regex path.
C22_ConfidenceIsFixedFunction ==
    ( /\ Done /\ round = 0 /\ doc.kind = "object"
      /\ doc.o[4].form \in {"num", "numtext", "absent", "word"} )
    => /\ IsNumber(Field(rec, "confidence"))
       /\ Field(rec, "confidence").n = ClaimedConfidence(doc.o[4])

\* C23 (as claimed): the repair removes comments and trailing commas only and
\* leaves every quoted text alone, so a candidate that json.loads accepts as
\* it stands is accepted after the repair too, with the same value.
C23_RepairKeepsValidJson ==
    (pc = "loads" /\ JsonLoads(ExtractCandidate(content)).ok)
    => /\ JsonLoads(json_str).ok
       /\ JsonLoads(json_str).val = JsonLoads(ExtractCandidate(content)).val

\* C24: whenever the regex tier ran, citations and further_reading of the
\* returned record are empty lists, whatever the raw content holds; the four
\* other fields are what the searches found, or the defaults.
C24_RegexPathListsEmpty ==
    (Done /\ "regex" \in events)
    => /\ Field(rec, "citations") = List(<<>>)
       /\ Field(rec, "further_reading") = List(<<>>)
       /\ \A f \in TextFields :
            Field(rec, f) \in {Str(TextSearch(content, f).group),
                               Field(DefaultRecord, f)}
       /\ IsNumber(Field(rec, "confidence"))

\* C24 witness: the raw content holds a well-formed citation entry and a
\* further-reading entry, the regex tier ran, and both lists came back empty.
C24_Witness ==
    /\ Done /\ round = 0 /\ doc.kind = "object"
    /\ "regex" \in events
    /\ doc.o[5].form \in {"titled", "urls"}
    /\ doc.o[6].form = "list"
    /\ TextSearch(content, "title").found
    /\ Field(rec, "citations") = List(<<>>)

\* the place after the opening fence of c (after its json tag, if tagged)
AfterOpeningFence(c) ==
    IF SourceOf(c) = "fence_json" THEN FirstTaggedFence(c) + 2
    ELSE FirstFence(c) + 1

\* c has an opening fence and no fence after it
UnclosedFence(c) ==
    /\ SourceOf(c) \in {"fence_json", "fence"}
    /\ \A j \in AfterOpeningFence(c)..Len(c) : c[j] # FENCE

OpenWraps == {"openfence", "openplain"}

\* C30: with an opening fence (tagged or not) and no fence after it, the
\* candidate is the text after the opening fence short of its last
\* character, trimmed; so a complete object that follows the unclosed fence
\* and ends the content loses its closing brace, is not parsed on the
\* structured path, and is handled by the regex tier.
C30_UnclosedFenceDropsLastChar ==
    /\ (pc = "repair" /\ UnclosedFence(content)) =>
        json_str = Strip(DropLastChar(SubSeq(content, AfterOpeningFence(content),
                                             Len(content))))
    /\ ( /\ round = 0 /\ doc.kind = "object"
         /\ doc.wrap \in OpenWraps /\ doc.defect # "unclosed" ) =>
        LET obj == RenderObject(doc.o, doc.defect)
        IN  /\ UnclosedFence(content)
            /\ pc = "repair" => json_str = Strip(SubSeq(obj, 1, Len(obj) - 1))
            /\ Done => "structured" \notin events /\ "regex" \in events

\* C30 witness: an object json.loads accepts as it stands followed an
\* unclosed untagged fence and was handled by the regex tier.
C30_Witness ==
    /\ Done /\ round = 0 /\ doc.kind = "object"
    /\ doc.wrap = "openplain" /\ doc.defect = "none"
    /\ JsonLoads(RenderObject(doc.o, "none")).ok
    /\ "regex" \in events
    /\ Field(rec, "answer") = Str(<<"A">>)

(***************************************************************************)
(* The cache of the HTTP service across failures, hits and concurrent      *)
(* fills                                                                   *)
(***************************************************************************)
QueryKey == CacheKey(request.queries[1])

\* C25: when the processing of a /query request raised (the model call
\* failed, or the response model rejected the result), the request is
\* answered 500, it wrote nothing to the cache, and the cache holds no entry
\* for its key, so an identical request that follows misses the cache and
\* calls the model again.
C25_FailedQueryLeavesCache ==
    ( /\ request.endpoint = "query"
      /\ tasks[1].pc = "done" /\ tasks[1].status_code # 200 )
    => /\ tasks[1].status_code = 500
       /\ reply # NoReply => reply.status_code = 500
       /\ work.model_calls = 1
       /\ work.cache_writes = 0
       /\ QueryKey \notin DOMAIN request_cache

\* C25 witness: a /query request was answered 500 because the response model
\* rejected the program's result, while the cache held an entry another
\* request had stored.
C25_Witness ==
    /\ request.endpoint = "query"
    /\ reply.status_code = 500
    /\ IsDict(tasks[1].result)
    /\ DOMAIN request_cache # {}

\* C27: a /query request that finds an entry for its key returns the stored
\* response with status 200, without a model call (and so without parsing)
\* and without a write to the cache; and a /query request that went to the
\* model had found no entry, so while an entry is there every request with
\* its key is answered from it.
C27_HitServedFromCache ==
    /\ \A i \in TaskIds :
        tasks[i].hit => /\ tasks[i].status_code = 200
                        /\ tasks[i].result = None
    /\ (request.endpoint = "query" /\ tasks[1].hit)
       => /\ work.model_calls = 0
          /\ work.cache_writes = 0
          /\ QueryKey \in DOMAIN request_cache
                => request_cache[QueryKey].response = tasks[1].value
          /\ reply # NoReply
                => reply = [status_code |-> 200, body |-> tasks[1].value]
    /\ (request.endpoint = "query" /\ tasks[1].pc = "awaiting")
       => QueryKey \notin DOMAIN request_cache

\* C27 witness: the second HTTP request was a /query answered from the cache.
C27_Witness ==
    /\ request.endpoint = "query"
    /\ served = 2
    /\ tasks[1].hit
    /\ reply.status_code = 200
    /\ QueryKey \in DOMAIN request_cache

\* the calls of the batch that have the key of call i
SameKey(i) ==
    {j \in TaskIds : CacheKey(request.queries[j]) = CacheKey(request.queries[i])}
\* the place of call i in the order of completion
FinishedAt(i) == CHOOSE n \in 1..Len(completed) : completed[n] = i
AllDone == \A i \in TaskIds : tasks[i].pc = "done"

\* C28: every call that missed the cache calls the model, whether or not
\* another call with its key is in flight; and when all calls of a batch that
\* share a key missed and have completed, the entry the cache holds for the
\* key is the response of the one that finished last (if that one returned a
\* response, and unless the entry has expired since).
C28_LastFinisherFillsCache ==
    /\ work.model_calls =
         Cardinality({i \in TaskIds : tasks[i].pc = "awaiting"
                                        \/ (tasks[i].pc = "done" /\ ~tasks[i].hit)})
    /\ (request.endpoint = "batch" /\ tasks # <<>> /\ AllDone) =>
        \A i \in TaskIds :
            ( /\ Cardinality(SameKey(i)) >= 2
              /\ \A j \in SameKey(i) : ~tasks[j].hit
              /\ \A j \in SameKey(i) : FinishedAt(j) <= FinishedAt(i)
              /\ tasks[i].status_code = 200
              /\ CacheKey(request.queries[i]) \in DOMAIN request_cache )
            => request_cache[CacheKey(request.queries[i])].response = tasks[i].value

\* C28 witness: a batch held the same query twice, both calls missed the
\* cache and called the model, they returned different responses, the second
\* finished first, and the cache holds the response of the first.
C28_Witness ==
    /\ request.endpoint = "batch"
    /\ Len(tasks) = 2 /\ AllDone
    /\ request.queries[1] = request.queries[2]
    /\ ~tasks[1].hit /\ ~tasks[2].hit
    /\ work.model_calls = 2
    /\ tasks[1].status_code = 200 /\ tasks[2].status_code = 200
    /\ tasks[1].value # tasks[2].value
    /\ completed = <<2, 1>>
    /\ QueryKey \in DOMAIN request_cache
    /\ request_cache[QueryKey].response = tasks[1].value

\* what generate_scientific_answer makes of the completions for call i
DirectResults(i) ==
    {generate_scientific_answer(c) : c \in DirectCompletions(request.queries[i])}
IsDirectErrorResponse(v) ==
    /\ IsDict(v)
    /\ Field(v, "background") = Str(<<"Error parsing the AI response.">>)
    /\ Field(v, "confidence") = Float(0)

\* C29: in the direct API a completion that cannot be parsed becomes the
\* error record, whose answer is the raw completion and whose confidence is
\* 0.0; the call returns it with status 200 and stores it in the cache as it
\* stores any answer, and a /query request answered from that entry makes no
\* model call.
C29_DirectErrorRecordCached ==
    /\ \A i \in TaskIds :
        (tasks[i].pc = "done" /\ ~tasks[i].hit /\ tasks[i].result \in DirectResults(i))
        => /\ tasks[i].status_code = 200
           /\ IsDirectErrorResponse(tasks[i].value)
           /\ Field(tasks[i].value, "answer")
                \in {Str(c) : c \in DirectCompletions(request.queries[i])}
           /\ \A c \in DirectCompletions(request.queries[i]) : ~JsonLoads(c).ok
    /\ ( /\ request.endpoint = "query"
         /\ tasks[1].pc = "done" /\ ~tasks[1].hit /\ tasks[1].result \in DirectResults(1) )
       => /\ work.cache_writes = 1
          /\ QueryKey \in DOMAIN request_cache
                => request_cache[QueryKey].response = tasks[1].value
    /\ ( /\ request.endpoint = "query"
         /\ tasks[1].hit /\ IsDirectErrorResponse(tasks[1].value) )
       => /\ work.model_calls = 0
          /\ reply # NoReply => reply.body = tasks[1].value

\* C29 witness: a /query request was answered from the cache with the error
\* record an earlier request had stored.
C29_Witness ==
    /\ request.endpoint = "query"
    /\ tasks[1].hit
    /\ reply.status_code = 200
    /\ IsDirectErrorResponse(reply.body)
    /\ Field(reply.body, "answer") \in {Str(c) : c \in DirectCompletions(request.queries[1])}

(***************************************************************************)
(* train_program (src/training.py): the program takes its few-shot         *)
(* examples from the training pairs of the dataset and is saved with them. *)
(***************************************************************************)
\* the greatest number of training pairs a dataset file holds
MaxPairs == 12

\* the i the loop breaks at:  if i >= 10: break
ExampleLimit == 10

\* an instance of a data model, with its attributes
Object(members) == Val("object", <<>>, 0, members)

\* the item of the 'train' list that is numbered n
TrainItem(n) ==
    Dict(<<
        Member(<<"question">>,
               Dict(<< Member(<<"question">>, Str(<<"Q", ToString(n)>>)) >>)),
        Member(<<"answer">>,
               Dict(<< Member(<<"background">>, Str(<<"B">>)),
                       Member(<<"reasoning">>, Str(<<"R">>)),
                       Member(<<"answer">>, Str(<<"A", ToString(n)>>)),
                       Member(<<"confidence">>, Float(9)),
                       Member(<<"citations">>, List(<<>>)) >>)) >>)

\* dataset files: unreadable, or holding the items first+1 .. first+n
DataFiles ==
    {None} \cup {List([i \in 1..n |-> TrainItem(first + i)]) :
                    n \in 0..MaxPairs, first \in {0, 1}}

\* ScientificQuery(**item['question']): absent optional fields are None
ScientificQuery(item) ==
    Object(<< Member(<<"question">>, DictGet(item, <<"question">>)),
              Member(<<"domain">>, DictGet(item, <<"domain">>)),
              Member(<<"context">>, DictGet(item, <<"context">>)) >>)

\* ScientificAnswer(**item['answer'])
ScientificAnswer(item) ==
    Object(<< Member(<<"background">>, DictGet(item, <<"background">>)),
              Member(<<"reasoning">>, DictGet(item, <<"reasoning">>)),
              Member(<<"answer">>, DictGet(item, <<"answer">>)),
              Member(<<"confidence">>, DictGet(item, <<"confidence">>)),
              Member(<<"citations">>, DictGet(item, <<"citations">>)),
              Member(<<"further_reading">>, DictGet(item, <<"further_reading">>)) >>)

\* load_dataset: x_train and y_train, zipped
LoadDataset(train) ==
    [i \in 1..Len(train.items) |->
        [x |-> ScientificQuery(DictGet(train.items[i], <<"question">>)),
         y |-> ScientificAnswer(DictGet(train.items[i], <<"answer">>))]]

\* convert_to_dict: an object becomes the mapping of its attributes whose
\* names do not start with an underscore; mappings and lists are converted
\* item by item
RECURSIVE convert_to_dict(_)
convert_to_dict(obj) ==
    CASE obj.t = "object" ->
            Dict([i \in 1..Len(SelectSeq(obj.items, LAMBDA m : At(m.s, 1) # "_")) |->
                    LET m == SelectSeq(obj.items, LAMBDA mm : At(mm.s, 1) # "_")[i]
                    IN  Member(m.s, convert_to_dict(m.items[1]))])
      [] obj.t = "dict" ->
            Dict([i \in 1..Len(obj.items) |->
                    Member(obj.items[i].s, convert_to_dict(obj.items[i].items[1]))])
      [] obj.t = "list" ->
            List([i \in 1..Len(obj.items) |-> convert_to_dict(obj.items[i])])
      [] OTHER -> obj

\* formatted_example
FormattedExample(pair) ==
    Dict(<< Member(<<"inputs">>, convert_to_dict(pair.x)),
            Member(<<"outputs">>, convert_to_dict(pair.y)) >>)

\* simplified_model
SimplifiedModel(examples) ==
    Dict(<< Member(<<"module">>, Str(<<"src.programs">>)),
            Member(<<"class_name">>, Str(<<"ScientificQAProgram">>)),
            Member(<<"config">>,
                   Dict(<< Member(<<"name">>, Str(<<"scientific_qa">>)),
                           Member(<<"description">>,
                                  Str(<<"Scientific question answering system">>)),
                           Member(<<"trainable">>, Bool(TRUE)),
                           Member(<<"examples">>, List(examples)) >>)) >>)

InitTrain ==
    /\ data_file \in DataFiles
    /\ train_pc = "load"
    /\ pairs = <<>>
    /\ loop_i = 0
    /\ formatted_examples = <<>>
    /\ program_examples = <<>>
    /\ saved_file = <<>>
    /\ NoParser /\ NoService /\ NoThreads /\ NoBuild

\* lines 203-221: the program is loaded or created, the dataset is loaded,
\* the program is compiled
StartTraining ==
    /\ train_pc = "load"
    /\ data_file # None
    /\ pairs' = LoadDataset(data_file)
    /\ train_pc' = "loop"
    /\ UNCHANGED <<data_file, loop_i, formatted_examples, program_examples, saved_file>>
    /\ UNCHANGED <<parserVars, apiVars, threadVars, buildVars>>

\* open(data_path) or json.load raises; train_program has no handler
LoadRaises ==
    /\ train_pc = "load"
    /\ data_file = None
    /\ train_pc' = "raised"
    /\ UNCHANGED <<data_file, pairs, loop_i, formatted_examples, program_examples,
                   saved_file>>
    /\ UNCHANGED <<parserVars, apiVars, threadVars, buildVars>>

\* lines 226-234: one round of the loop: the example is appended, then i is
\* tested
AddExample ==
    /\ train_pc = "loop"
    /\ loop_i < Len(pairs)
    /\ formatted_examples' = Append(formatted_examples, FormattedExample(pairs[loop_i + 1]))
    /\ IF loop_i >= ExampleLimit
       THEN train_pc' = "set" /\ loop_i' = loop_i
       ELSE train_pc' = "loop" /\ loop_i' = loop_i + 1
    /\ UNCHANGED <<data_file, pairs, program_examples, saved_file>>
    /\ UNCHANGED <<parserVars, apiVars, threadVars, buildVars>>

\* zip(x_train, y_train) is exhausted
EndLoop ==
    /\ train_pc = "loop"
    /\ loop_i = Len(pairs)
    /\ train_pc' = "set"
    /\ UNCHANGED <<data_file, pairs, loop_i, formatted_examples, program_examples,
                   saved_file>>
    /\ UNCHANGED <<parserVars, apiVars, threadVars, buildVars>>

\* line 237: program.examples = formatted_examples
SetExamples ==
    /\ train_pc = "set"
    /\ program_examples' = formatted_examples
    /\ train_pc' = "save"
    /\ UNCHANGED <<data_file, pairs, loop_i, formatted_examples, saved_file>>
    /\ UNCHANGED <<parserVars, apiVars, threadVars, buildVars>>

\* lines 246-266: json.dump(simplified_model, f, indent=2); the indentation
\* is not written out here
SaveModel ==
    /\ train_pc = "save"
    /\ saved_file' = JsonDumps(SimplifiedModel(formatted_examples))
    /\ train_pc' = "done"
    /\ UNCHANGED <<data_file, pairs, loop_i, formatted_examples, program_examples>>
    /\ UNCHANGED <<parserVars, apiVars, threadVars, buildVars>>

NextTrain ==
    \/ StartTraining
    \/ LoadRaises
    \/ AddExample
    \/ EndLoop
    \/ SetExamples
    \/ SaveModel

SpecTrain == InitTrain /\ [][NextTrain]_vars

\* the examples the saved model file holds
SavedExamples ==
    Field(Field(JsonLoads(saved_file).val, "config"), "examples").items

\* the first n of the training pairs, formatted, in dataset order
FirstExamples(n) ==
    [i \in 1..(IF Len(pairs) < n THEN Len(pairs) ELSE n) |-> FormattedExample(pairs[i])]

\* C26 (as claimed): when train_program has returned, the examples set on
\* the program and those in the saved model file are the first training
\* pairs in dataset order, and there are no more than 10 of them.
C26_AtMostTenExamples ==
    train_pc = "done"
    => /\ Len(program_examples) <= ExampleLimit
       /\ Len(SavedExamples) <= ExampleLimit
       /\ program_examples = FirstExamples(ExampleLimit)
       /\ SavedExamples = FirstExamples(ExampleLimit)

====
